---- MODULE Spec2Model ----
(***************************************************************************)
(* Authentication core of progressor: the in-memory rate limiter           *)
(* (src/lib/rate-limit.ts), the auth event log (src/lib/auth-logger.ts)    *)
(* and the login / token flows (src/lib/auth.ts).                          *)
(*                                                                         *)
(* Time is Date.now() in milliseconds.  Strings that the code builds by    *)
(* concatenation and takes apart again (`auth:${email}`, `reset:${email}`) *)
(* are sequences of chunks, so that startsWith / replace are computed.     *)
(***************************************************************************)
EXTENDS Integers, Sequences, FiniteSets, TLC

VARIABLES
    now,        \* Date.now()
    store,      \* RateLimiter.store : key -> entry | NoEntry
    opts,       \* the RateLimitOptions the limiter-only runs check with
    calls,      \* history: results of the checks of a key since it was last absent
    forgiven,   \* history: the keys that were rate limited when last reset
    swept,      \* history: the limiter-only keys a sweep deleted, until reset
    nodeEnv,    \* process.env.NODE_ENV
    rateLimitStore, \* middleware.ts rateLimitStore : key -> entry | NoEntry
    passed,     \* history: per IP, the requests the middleware passed on in the window
    users,      \* db.user : email -> record | NoUser
    tokens,     \* db.verificationToken : set of rows
    logStore,   \* auth-logger's logStore
    req,        \* the requests in flight: slot -> position, inputs, locals, result
    minted,     \* number of tokens generateToken has produced
    issued,     \* history: every row db.verificationToken.create has written
    trail,      \* history: per email, the last LOGIN_SUCCESS and what followed it:
                \*          failed and rate-limited logins, password resets
    used        \* history: the tokens a consume has succeeded with

rlVars == <<now, store, opts, calls, forgiven, swept>>
dbVars == <<users, tokens, logStore>>
histVars == <<minted, issued, trail, used>>
authVars == <<nodeEnv, rateLimitStore, passed, users, tokens, logStore, req, minted, issued, trail, used>>
vars == <<now, store, opts, calls, forgiven, swept, nodeEnv, rateLimitStore, passed, users, tokens, logStore, req, minted, issued,
          trail, used>>

\* ------------------------------------------------------------------ bounds
MaxCalls == 3           \* checks recorded (and made) per key while it stays in the store
MaxPolicyAttempts == 2  \* largest maxAttempts drawn for a policy
MaxPolicyWindow == 2    \* largest windowMs drawn for a policy
MaxClock == 3           \* last instant of the limiter-only clock
MaxApiCount == 3        \* requests counted for one address by apiRateLimiter
MAX_LOG_ENTRIES == 2    \* logStore capacity (10000 in auth-logger.ts, scaled down)
MaxLoginTokens == 1     \* reset tokens issued in a run of the login orchestrator
MaxTokens == 2          \* tokens generateToken produces in a run
MaxTrail == 5           \* entries kept of a trail
MaxCount == 6           \* largest count an "auth:" entry is driven to
MaxEnumCount == 1       \* attempts counted per email where two callers log in
MaxRouteCount == 2      \* requests counted per route and client IP

\* ------------------------------------------------------------------ values
NoEntry == [absent |-> TRUE]
\* the value of an optional number that is not set
Undefined == -1

\* 60 * 60 * 1000 : RateLimiter.cleanup's maxAge
CLEANUP_MAX_AGE == 3600000

RLKeys == {<<"k1">>, <<"k2">>}
Policies == [maxAttempts : 1..MaxPolicyAttempts, windowMs : 1..MaxPolicyWindow]

\* ------------------------------------------------------------ rate limiter
\* a first entry that counts no attempt
FreshEntry_Zero(t) == [count |-> 0, firstAttempt |-> t, lastAttempt |-> t]

\* check, lines 43-47 and 53-57: the entry of a first attempt
FreshEntry(t) == [count |-> 1, firstAttempt |-> t, lastAttempt |-> t]

Max0(x) == IF x > 0 THEN x ELSE 0

\* a window that is over already when exactly windowMs have passed
WindowExpired_Inclusive(entry, t, options) == t - entry.firstAttempt >= options.windowMs

\* check, line 52: the window of the entry has expired at time t
WindowExpired(entry, t, options) == t - entry.firstAttempt > options.windowMs

\* a limiter that counts one attempt too few
Exceeded_OffByOne(count, options) == count > options.maxAttempts + 1

\* check, line 67: the incremented count exceeds the policy
Exceeded(count, options) == count > options.maxAttempts

\* a wait that is counted from the last attempt
RemainingMs_FromLast(entry, t, options) == Max0(options.windowMs - (t - entry.lastAttempt) + 1)

\* check, lines 68-72: the remainingMs of a rejected check
RemainingMs(entry, t, options) == Max0(options.windowMs - (t - entry.firstAttempt))

\* RateLimiter.check: the entry written to the store and the result returned
CheckOutcome(entry, t, options) ==
    IF entry = NoEntry
    THEN [entry  |-> FreshEntry(t),
          result |-> [success |-> TRUE, remaining |-> options.maxAttempts - 1,
                      remainingMs |-> Undefined]]
    ELSE IF WindowExpired(entry, t, options)
    THEN [entry  |-> FreshEntry(t),
          result |-> [success |-> TRUE, remaining |-> options.maxAttempts - 1,
                      remainingMs |-> Undefined]]
    ELSE LET e == [entry EXCEPT !.count = entry.count + 1, !.lastAttempt = t]
         IN  IF Exceeded(e.count, options)
             THEN [entry  |-> e,
                   result |-> [success |-> FALSE, remaining |-> 0,
                               remainingMs |-> RemainingMs(e, t, options)]]
             ELSE [entry  |-> e,
                   result |-> [success |-> TRUE,
                               remaining |-> options.maxAttempts - e.count,
                               remainingMs |-> Undefined]]

\* a reset that leaves the entry in place
ResetStore_Noop(s, key) == s

\* a reset that clears every key
ResetStore_All(s, key) == [k \in DOMAIN s |-> NoEntry]

\* RateLimiter.reset
ResetStore(s, key) == [s EXCEPT ![key] = NoEntry]

\* a sweep that deletes every entry not touched at this instant
Stale_Eager(s, t) == {k \in DOMAIN s : s[k] # NoEntry /\ t - s[k].lastAttempt > 0}

\* RateLimiter.cleanup: the keys the sweep deletes
Stale(s, t) == {k \in DOMAIN s : s[k] # NoEntry /\ t - s[k].lastAttempt > CLEANUP_MAX_AGE}

CleanupStore(s, t) == [k \in DOMAIN s |-> IF k \in Stale(s, t) THEN NoEntry ELSE s[k]]

\* ------------------------------------------------------------- auth values
\* auth.ts constants
MAX_LOGIN_ATTEMPTS == 5
\* LOCKOUT_DURATION_MINUTES * 60 * 1000
LOCKOUT_MS == 900000
\* 24 * 60 * 60 * 1000 : life of an email verification token
VERIFY_TTL_MS == 86400000
\* 60 * 60 * 1000 : life of a password reset token
RESET_TTL_MS == 3600000

\* a login policy that lets one more attempt through
LoginPolicy_Lenient == [maxAttempts |-> MAX_LOGIN_ATTEMPTS + 1, windowMs |-> LOCKOUT_MS]
LoginPolicy == [maxAttempts |-> MAX_LOGIN_ATTEMPTS, windowMs |-> LOCKOUT_MS]

\* normalized emails: one with a password, one created by an identity
\* provider (no password), one without a credential record
EmailA == <<"a@x.com">>
EmailO == <<"o@x.com">>
EmailN == <<"n@x.com">>
Emails == {EmailA, EmailO, EmailN}
Passwords == {"Abcdefg1", "Zyxwvut9"}
ClientIp == "10.0.0.1"

\* the client addresses of the middleware's requests, and its keys
Ips == {ClientIp}
MiddlewareKey(ip) == <<"ratelimit:", ip>>
MiddlewareKeys == {MiddlewareKey(ip) : ip \in Ips}

NoUser == [absent |-> TRUE]
NoHash == [null |-> TRUE]
NullDate == [null |-> TRUE]
NoRow == [absent |-> TRUE]
NoMeta == [none |-> TRUE]
NoResult == [kind |-> "none"]
NoString == "undefined"
NoEmail == <<>>

\* `auth:${email}`
AuthKey(email) == <<"auth:">> \o email
\* `reset:${email}`
ResetIdentifier(email) == <<"reset:">> \o email
\* identifier.startsWith('reset:')
StartsWithReset(identifier) == Len(identifier) >= 1 /\ identifier[1] = "reset:"
\* identifier.replace('reset:', '') : the first occurrence is removed
FirstReset(identifier) ==
    CHOOSE i \in 1..Len(identifier) :
        identifier[i] = "reset:" /\ \A j \in 1..(i - 1) : identifier[j] # "reset:"
StripReset(identifier) ==
    IF \E i \in 1..Len(identifier) : identifier[i] = "reset:"
    THEN SubSeq(identifier, 1, FirstReset(identifier) - 1)
            \o SubSeq(identifier, FirstReset(identifier) + 1, Len(identifier))
    ELSE identifier

AuthKeys == {AuthKey(e) : e \in Emails}
\* `reset-password:${clientIp}`, `forgot-password:${clientIp}`
ResetRouteKey(ip) == <<"reset-password:", ip>>
ForgotRouteKey(ip) == <<"forgot-password:", ip>>
RouteKeys == {ResetRouteKey(ClientIp), ForgotRouteKey(ClientIp)}
\* defaultKeyGenerator: `api:${ip}`
ApiKey(ip) == <<"api:", ip>>
Keys == RLKeys \cup AuthKeys \cup RouteKeys \cup {ApiKey(ClientIp)}

\* bcrypt.hash / bcrypt.compare
HashPassword(password) == [bcrypt |-> password]
VerifyPassword(password, hash) == hash = HashPassword(password)

\* Math.ceil(x / d) for x >= 0
CeilDiv(x, d) == (x + d - 1) \div d
\* rateLimitResult.remainingMs || 0
OrZero(x) == IF x = Undefined THEN 0 ELSE x

\* errors.ts
AuthError(message, code) ==
    [kind |-> "throw", class |-> "AuthError", message |-> <<message>>, code |-> code,
     statusCode |-> 401]
RateLimitError(message) ==
    [kind |-> "throw", class |-> "RateLimitError", message |-> message,
     code |-> "RATE_LIMIT_EXCEEDED", statusCode |-> 429, retryAfter |-> Undefined]
\* what Prisma's update / delete throw when no record matches `where`
RecordNotFound ==
    [kind |-> "throw", class |-> "PrismaClientKnownRequestError", code |-> "P2025"]
Returned(value) == [kind |-> "return", null |-> FALSE, value |-> value]
ReturnedNull == [kind |-> "return", null |-> TRUE]

\* the message of the two LOGIN_FAILED rejections that names the wrong case
InvalidCredentials_Revealing(reason) ==
    AuthError(IF reason = "USER_NOT_FOUND" THEN "Kullanici bulunamadi"
              ELSE "Gecersiz email veya sifre", "INVALID_CREDENTIALS")

\* authorize, lines 95 and 110: the error of both LOGIN_FAILED rejections
InvalidCredentials(reason) == AuthError("Gecersiz email veya sifre", "INVALID_CREDENTIALS")

\* authorize, lines 66-69
LoginRateLimited(result) ==
    RateLimitError(<<"Cok fazla basarisiz giris denemesi.",
                     CeilDiv(OrZero(result.remainingMs), 60000),
                     "dakika sonra tekrar deneyin.">>)

\* ---------------------------------------------------------------- event log
Event(type, email, userId, ip, metadata) ==
    [type |-> type, email |-> email, userId |-> userId, ip |-> ip, metadata |-> metadata]

\* a log that refuses the new entry when it is full
LogAuthEvent_DropNewest(log, event, t) ==
    IF Len(log) >= MAX_LOG_ENTRIES
    THEN log
    ELSE Append(log, [type |-> event.type, email |-> event.email, userId |-> event.userId,
                      ip |-> event.ip, metadata |-> event.metadata, timestamp |-> t])

\* logAuthEvent: push, then shift when over capacity
LogAuthEvent(log, event, t) ==
    LET entry == [type |-> event.type, email |-> event.email, userId |-> event.userId,
                  ip |-> event.ip, metadata |-> event.metadata, timestamp |-> t]
        pushed == Append(log, entry)
    IN  IF Len(pushed) > MAX_LOG_ENTRIES THEN Tail(pushed) ELSE pushed

\* ------------------------------------------------------- event log queries
\* detectSuspiciousActivity, line 141: 60 * 60 * 1000
SUSPICIOUS_WINDOW_MS == 3600000
\* line 150: failedLogins.length >= 10 && uniqueIps.size >= 3
FAILED_LOGINS_THRESHOLD == 10
DISTINCT_IPS_THRESHOLD == 3
\* line 162: resetRequests.length >= 5
RESET_REQUESTS_THRESHOLD == 5

\* Array.prototype.reverse
Reverse(seq) == [i \in 1..Len(seq) |-> seq[Len(seq) + 1 - i]]
\* Array.prototype.slice(-limit): from Len - limit, not below 0; -0 is 0, so
\* a limit of 0 slices from the start
SliceLast(seq, limit) ==
    LET start == IF limit > 0 THEN Max0(Len(seq) - limit) ELSE 0
    IN  SubSeq(seq, start + 1, Len(seq))
\* Array.prototype.findIndex(entry => entry.timestamp > cutoff): 0-based, -1
\* when no entry matches
FindIndex(log, cutoff) ==
    LET hits == {i \in 1..Len(log) : log[i].timestamp > cutoff}
    IN  IF hits = {} THEN -1 ELSE (CHOOSE i \in hits : \A j \in hits : i <= j) - 1

\* cleanupOldLogs: the log left and the number returned
CleanupOldLogs(log, maxAgeMs, t) ==
    LET index == FindIndex(log, t - maxAgeMs)
        left  == IF index > 0 THEN SubSeq(log, index + 1, Len(log)) ELSE log
    IN  [log |-> left, removed |-> Len(log) - Len(left)]

\* a window that takes in every entry
Recent_Always(entry, t) == TRUE
\* line 141: entry.timestamp > new Date(Date.now() - 60 * 60 * 1000)
Recent(entry, t) == entry.timestamp > t - SUSPICIOUS_WINDOW_MS

\* detectSuspiciousActivity
DetectSuspiciousActivity(log, email, t) ==
    LET recentEvents  == SelectSeq(log, LAMBDA x : x.email = email /\ Recent(x, t))
        failedLogins  == SelectSeq(recentEvents, LAMBDA x : x.type = "LOGIN_FAILED")
        uniqueIps     == {failedLogins[i].ip : i \in 1..Len(failedLogins)} \ {NoString, ""}
        resetRequests == SelectSeq(recentEvents,
                                   LAMBDA x : x.type = "PASSWORD_RESET_REQUESTED")
    IN  IF Len(failedLogins) >= FAILED_LOGINS_THRESHOLD
           /\ Cardinality(uniqueIps) >= DISTINCT_IPS_THRESHOLD
        THEN [suspicious |-> TRUE, reason |-> "Multiple failed logins from different IPs"]
        ELSE IF Len(resetRequests) >= RESET_REQUESTS_THRESHOLD
        THEN [suspicious |-> TRUE, reason |-> "Excessive password reset requests"]
        ELSE [suspicious |-> FALSE, reason |-> NoString]

\* getAuthEventsForUser, getAuthEventsByType: filter, slice(-limit), reverse
GetAuthEventsForUser(log, userId, limit) ==
    Reverse(SliceLast(SelectSeq(log, LAMBDA x : x.userId = userId), limit))
GetAuthEventsByType(log, type, limit) ==
    Reverse(SliceLast(SelectSeq(log, LAMBDA x : x.type = type), limit))

\* ------------------------------------------------------------------ storage
\* db.user.findUnique({ where: { email } })
FindUser(email) == IF email \in DOMAIN users THEN users[email] ELSE NoUser
\* db.verificationToken.findUnique({ where: { token } })
RowsOf(token) == {row \in tokens : row.token = token}
FindToken(token) == IF RowsOf(token) = {} THEN NoRow ELSE CHOOSE row \in RowsOf(token) : TRUE
\* a delete that leaves the row in the store
DeleteToken_Keep(token) == tokens
\* db.verificationToken.delete({ where: { token } }), a row being there
DeleteToken(token) == tokens \ RowsOf(token)
\* a deleteMany that removes nothing
DeleteMany_None(identifier) == tokens
\* db.verificationToken.deleteMany({ where: { identifier } })
DeleteMany(identifier) == {row \in tokens : row.identifier # identifier}
\* an expiry test that never finds a token expired
Expired_Never(row, t) == FALSE
\* verificationToken.expires < new Date()
Expired(row, t) == row.expires < t

\* ----------------------------------------------------------------- requests
Slots == {1, 2}
IdleReq ==
    [op |-> "idle", pc |-> "idle", email |-> NoEmail, password |-> "", token |-> 0,
     newPassword |-> "", expires |-> 0, date |-> 0, begun |-> 0, wasUsed |-> FALSE,
     rl |-> NoResult, user |-> NoUser, row |-> NoRow,
     result |-> NoResult, reads |-> 0, compares |-> 0, writes |-> 0, logged |-> <<>>,
     userId |-> NoString, route |-> "none", response |-> NoResult, body |-> NoString,
     filter |-> NoString, limit |-> 0, maxAgeMs |-> 0, handled |-> FALSE, nth |-> 0,
     path |-> <<>>]

\* the slot holds no call in progress: none was made, or the last one has
\* returned and, when a route made it, the route has answered
Free(r) ==
    /\ req[r].pc \in {"idle", "done"}
    /\ req[r].route = "none" \/ req[r].response # NoResult
At(r, op, pc) == req[r].op = op /\ req[r].pc = pc

\* history bookkeeping
Last(seq, n) == IF Len(seq) > n THEN SubSeq(seq, Len(seq) - n + 1, Len(seq)) ELSE seq
Noted(email, mark) == [trail EXCEPT ![email] = Last(Append(@, mark), MaxTrail)]

\* -------------------------------------------------------------- authorize
\* lines 44-50: authorize is entered; credentials without a password are refused
StartLogin(r, email, password) ==
    /\ Free(r)
    /\ store[AuthKey(email)] # NoEntry => store[AuthKey(email)].count < MaxCount
    /\ IF password = ""
       THEN req' = [req EXCEPT ![r] = [IdleReq EXCEPT !.op = "login", !.pc = "done",
                       !.email = email,
                       !.result = AuthError("Email ve sifre gereklidir",
                                            "MISSING_CREDENTIALS")]]
       ELSE req' = [req EXCEPT ![r] = [IdleReq EXCEPT !.op = "login", !.pc = "check",
                       !.email = email, !.password = password]]
    /\ UNCHANGED <<now, store, opts, calls, forgiven, swept, nodeEnv, rateLimitStore, passed, users, tokens, logStore, minted, issued,
                   trail, used>>

\* a check whose write to the store is lost
LoginCheck_Unrecorded(r) ==
    /\ At(r, "login", "check")
    /\ LET o == CheckOutcome(store[AuthKey(req[r].email)], now, LoginPolicy)
       IN  req' = [req EXCEPT ![r].rl = o.result, ![r].date = now, ![r].pc = "checked"]
    /\ UNCHANGED <<now, store, opts, calls, forgiven, swept, nodeEnv, rateLimitStore, passed,
                   users, tokens, logStore, minted, issued, trail, used>>

\* lines 53-56: rateLimit.check(`auth:${email}`, ...)
LoginCheck(r) ==
    /\ At(r, "login", "check")
    /\ LET e == req[r].email
           o == CheckOutcome(store[AuthKey(e)], now, LoginPolicy)
       IN  /\ store' = [store EXCEPT ![AuthKey(e)] = o.entry]
           /\ req' = [req EXCEPT ![r].rl = o.result, ![r].date = now, ![r].pc = "checked"]
    /\ UNCHANGED <<now, opts, calls, forgiven, swept, nodeEnv, rateLimitStore, passed, users, tokens, logStore, minted, issued, trail, used>>

\* a rejection test that never rejects
RateLimited_Never(result) == FALSE

\* line 58: the check rejected the attempt
RateLimited(result) == ~result.success

\* lines 58-70: rate limited, log and throw; lines 73-84: else read the user
LoginChecked(r) ==
    /\ At(r, "login", "checked")
    /\ LET e == req[r].email
       IN  IF RateLimited(req[r].rl)
           THEN /\ logStore' = LogAuthEvent(logStore,
                      Event("LOGIN_RATE_LIMITED", e, NoString, ClientIp,
                            [remainingMs |-> req[r].rl.remainingMs]), now)
                /\ req' = [req EXCEPT ![r].pc = "done", ![r].date = 0, ![r].user = NoUser,
                                      ![r].logged = Append(@, Event("LOGIN_RATE_LIMITED", e, NoString, ClientIp, [remainingMs |-> req[r].rl.remainingMs])),
                                      ![r].result = LoginRateLimited(req[r].rl)]
                /\ trail' = Noted(e, [kind |-> "R", at |-> req[r].date])
           ELSE /\ req' = [req EXCEPT ![r].pc = "found", ![r].user = FindUser(e),
                                      ![r].reads = @ + 1]
                /\ UNCHANGED <<logStore, trail>>
    /\ UNCHANGED <<now, store, opts, calls, forgiven, swept, nodeEnv, rateLimitStore, passed, users, tokens, minted, issued, used>>

\* lines 86-96: no user or no password; lines 99-111: wrong password;
\* line 114: rateLimit.reset on a correct password
LoginFound(r) ==
    /\ At(r, "login", "found")
    /\ LET e == req[r].email
           u == req[r].user
       IN  IF u = NoUser \/ u.password = NoHash
           THEN /\ logStore' = LogAuthEvent(logStore,
                      Event("LOGIN_FAILED", e, NoString, ClientIp,
                            [reason |-> "USER_NOT_FOUND"]), now)
                /\ req' = [req EXCEPT ![r].pc = "done", ![r].date = 0, ![r].user = NoUser,
                                      ![r].logged = Append(@, Event("LOGIN_FAILED", e, NoString, ClientIp, [reason |-> "USER_NOT_FOUND"])),
                                      ![r].result = InvalidCredentials("USER_NOT_FOUND")]
                /\ trail' = Noted(e, [kind |-> "F", at |-> req[r].date])
                /\ UNCHANGED store
           ELSE IF ~VerifyPassword(req[r].password, u.password)
           THEN /\ logStore' = LogAuthEvent(logStore,
                      Event("LOGIN_FAILED", e, u.id, ClientIp,
                            [reason |-> "INVALID_PASSWORD"]), now)
                /\ req' = [req EXCEPT ![r].pc = "done", ![r].date = 0, ![r].user = NoUser,
                                      ![r].compares = @ + 1,
                                      ![r].logged = Append(@, Event("LOGIN_FAILED", e, u.id, ClientIp, [reason |-> "INVALID_PASSWORD"])),
                                      ![r].result = InvalidCredentials("INVALID_PASSWORD")]
                /\ trail' = Noted(e, [kind |-> "F", at |-> req[r].date])
                /\ UNCHANGED store
           ELSE /\ store' = ResetStore(store, AuthKey(e))
                /\ req' = [req EXCEPT ![r].pc = "verified", ![r].compares = @ + 1]
                /\ UNCHANGED <<logStore, trail>>
    /\ UNCHANGED <<now, opts, calls, forgiven, swept, nodeEnv, rateLimitStore, passed, users, tokens, minted, issued, used>>

\* lines 117-130: log LOGIN_SUCCESS and return the identity
LoginVerified(r) ==
    /\ At(r, "login", "verified")
    /\ LET e == req[r].email
           u == req[r].user
       IN  /\ logStore' = LogAuthEvent(logStore,
                 Event("LOGIN_SUCCESS", e, u.id, ClientIp, NoMeta), now)
           /\ req' = [req EXCEPT ![r].pc = "done", ![r].date = 0, ![r].user = NoUser,
                                 ![r].logged = Append(@, Event("LOGIN_SUCCESS", e, u.id, ClientIp, NoMeta)),
                                 ![r].result = Returned([id |-> u.id, email |-> e,
                                                  emailVerified |-> u.emailVerified])]
           /\ trail' = [trail EXCEPT ![e] = <<[kind |-> "S", at |-> req[r].date]>>]
    /\ UNCHANGED <<now, store, opts, calls, forgiven, swept, nodeEnv, rateLimitStore, passed, users, tokens, minted, issued, used>>


\* ------------------------------------------------ generateVerificationToken
\* lines 287-293: generateToken(64), expires, deleteMany({ identifier: email });
\* register (its only caller) has created the user before
StartGenerateVerification(r, email) ==
    /\ Free(r)
    /\ minted < MaxTokens
    /\ FindUser(email) # NoUser
    /\ minted' = minted + 1
    /\ tokens' = DeleteMany(email)
    /\ req' = [req EXCEPT ![r] = [IdleReq EXCEPT !.op = "generateVerification",
                  !.pc = "deleted", !.email = email, !.token = minted + 1,
                  !.expires = now + VERIFY_TTL_MS]]
    /\ UNCHANGED <<now, store, opts, calls, forgiven, swept, nodeEnv, rateLimitStore, passed, users, logStore, issued, trail, used>>

\* lines 296-304: create the row and return the token
GenerateVerificationCreate(r) ==
    /\ At(r, "generateVerification", "deleted")
    /\ LET row == [identifier |-> req[r].email, token |-> req[r].token,
                   expires |-> req[r].expires]
       IN  /\ tokens' = tokens \cup {row}
           /\ issued' = issued \cup {row}
    /\ req' = [req EXCEPT ![r].pc = "done", ![r].result = Returned(req[r].token)]
    /\ UNCHANGED <<now, store, opts, calls, forgiven, swept, nodeEnv, rateLimitStore, passed, users, logStore, minted, trail, used>>

\* ----------------------------------------------- generatePasswordResetToken
\* line 347: db.user.findUnique({ where: { email } })
StartGeneratePasswordReset(r, email) ==
    /\ Free(r)
    /\ minted < MaxTokens
    /\ req' = [req EXCEPT ![r] = [IdleReq EXCEPT !.op = "generatePasswordReset",
                  !.pc = "found", !.email = email, !.user = FindUser(email),
                  !.reads = 1]]
    /\ UNCHANGED <<now, store, opts, calls, forgiven, swept, nodeEnv, rateLimitStore, passed, users, tokens, logStore, minted, issued,
                   trail, used>>

\* lines 349-361: no user, return null; else generateToken(64), expires,
\* deleteMany({ identifier: `reset:${email}` })
GeneratePasswordResetFound(r) ==
    /\ At(r, "generatePasswordReset", "found")
    /\ IF req[r].user = NoUser
       THEN /\ req' = [req EXCEPT ![r].pc = "done", ![r].result = ReturnedNull]
            /\ UNCHANGED <<tokens, minted>>
       ELSE /\ minted' = minted + 1
            /\ tokens' = DeleteMany(ResetIdentifier(req[r].email))
            /\ req' = [req EXCEPT ![r].pc = "deleted", ![r].token = minted + 1,
                                  ![r].expires = now + RESET_TTL_MS]
    /\ UNCHANGED <<now, store, opts, calls, forgiven, swept, nodeEnv, rateLimitStore, passed, users, logStore, issued, trail, used>>

\* lines 364-370: create the row
GeneratePasswordResetCreate(r) ==
    /\ At(r, "generatePasswordReset", "deleted")
    /\ LET row == [identifier |-> ResetIdentifier(req[r].email), token |-> req[r].token,
                   expires |-> req[r].expires]
       IN  /\ tokens' = tokens \cup {row}
           /\ issued' = issued \cup {row}
    /\ req' = [req EXCEPT ![r].pc = "created"]
    /\ UNCHANGED <<now, store, opts, calls, forgiven, swept, nodeEnv, rateLimitStore, passed, users, logStore, minted, trail, used>>

\* lines 372-378: log PASSWORD_RESET_REQUESTED and return the token
GeneratePasswordResetLog(r) ==
    /\ At(r, "generatePasswordReset", "created")
    /\ logStore' = LogAuthEvent(logStore,
          Event("PASSWORD_RESET_REQUESTED", req[r].email, req[r].user.id, NoString,
                NoMeta), now)
    /\ req' = [req EXCEPT ![r].pc = "done",
                          ![r].logged = Append(@, Event("PASSWORD_RESET_REQUESTED", req[r].email, req[r].user.id, NoString, NoMeta)),
                          ![r].result = Returned(req[r].token)]
    /\ UNCHANGED <<now, store, opts, calls, forgiven, swept, nodeEnv, rateLimitStore, passed, users, tokens, minted, issued, trail, used>>

\* --------------------------------------------------------- verifyEmailToken
\* a verification that stores no date
VerifiedAt_Null(t) == NullDate
\* line 329: emailVerified: new Date()
VerifiedAt(t) == [at |-> t]

\* lines 311-313: findUnique({ where: { token } })
StartVerifyEmail(r, token) ==
    /\ Free(r)
    /\ req' = [req EXCEPT ![r] = [IdleReq EXCEPT !.op = "verifyEmail", !.pc = "found",
                  !.token = token, !.row = FindToken(token), !.begun = now,
                  !.wasUsed = token \in used]]
    /\ UNCHANGED <<now, store, opts, calls, forgiven, swept, nodeEnv, rateLimitStore, passed, users, tokens, logStore, minted, issued,
                   trail, used>>

\* lines 315-330: absent, return null; expired, delete and return null;
\* else db.user.update({ where: { email }, data: { emailVerified: new Date() } })
VerifyEmailFound(r) ==
    /\ At(r, "verifyEmail", "found")
    /\ LET row == req[r].row
       IN  IF row = NoRow
           THEN /\ req' = [req EXCEPT ![r].pc = "done", ![r].result = ReturnedNull]
                /\ UNCHANGED <<users, tokens>>
           ELSE IF Expired(row, now)
           THEN /\ IF RowsOf(row.token) = {}
                   THEN /\ req' = [req EXCEPT ![r].pc = "done", ![r].date = now,
                                              ![r].result = RecordNotFound]
                        /\ UNCHANGED tokens
                   ELSE /\ tokens' = DeleteToken(row.token)
                        /\ req' = [req EXCEPT ![r].pc = "done", ![r].date = now,
                                              ![r].result = ReturnedNull]
                /\ UNCHANGED users
           ELSE IF FindUser(row.identifier) = NoUser
           THEN /\ req' = [req EXCEPT ![r].pc = "done", ![r].date = now,
                                      ![r].result = RecordNotFound]
                /\ UNCHANGED <<users, tokens>>
           ELSE /\ users' = [users EXCEPT ![row.identifier].emailVerified = VerifiedAt(now)]
                /\ req' = [req EXCEPT ![r].pc = "updated", ![r].date = now,
                                      ![r].writes = @ + 1]
                /\ UNCHANGED tokens
    /\ UNCHANGED <<now, store, opts, calls, forgiven, swept, nodeEnv, rateLimitStore, passed, logStore, minted, issued, trail, used>>

\* line 333: delete the used token
VerifyEmailUpdated(r) ==
    /\ At(r, "verifyEmail", "updated")
    /\ IF RowsOf(req[r].token) = {}
       THEN /\ req' = [req EXCEPT ![r].pc = "done", ![r].result = RecordNotFound]
            /\ UNCHANGED tokens
       ELSE /\ tokens' = DeleteToken(req[r].token)
            /\ req' = [req EXCEPT ![r].pc = "deleted"]
    /\ UNCHANGED <<now, store, opts, calls, forgiven, swept, nodeEnv, rateLimitStore, passed, users, logStore, minted, issued, trail, used>>

\* lines 335-340: log EMAIL_VERIFIED and return the email
VerifyEmailDeleted(r) ==
    /\ At(r, "verifyEmail", "deleted")
    /\ logStore' = LogAuthEvent(logStore,
          Event("EMAIL_VERIFIED", req[r].row.identifier, NoString, NoString, NoMeta), now)
    /\ req' = [req EXCEPT ![r].pc = "done", ![r].logged = Append(@, Event("EMAIL_VERIFIED", req[r].row.identifier, NoString, NoString, NoMeta)),
                          ![r].result = Returned(req[r].row.identifier)]
    /\ used' = used \cup {req[r].token}
    /\ UNCHANGED <<now, store, opts, calls, forgiven, swept, nodeEnv, rateLimitStore, passed, users, tokens, minted, issued, trail>>

\* --------------------------------------------------- resetPasswordWithToken
\* lines 388-390: findUnique({ where: { token } })
StartResetPassword(r, token, newPassword) ==
    /\ Free(r)
    /\ req' = [req EXCEPT ![r] = [IdleReq EXCEPT !.op = "resetPassword", !.pc = "found",
                  !.token = token, !.newPassword = newPassword,
                  !.row = FindToken(token), !.begun = now,
                  !.wasUsed = token \in used]]
    /\ UNCHANGED <<now, store, opts, calls, forgiven, swept, nodeEnv, rateLimitStore, passed, users, tokens, logStore, minted, issued,
                   trail, used>>

\* lines 392-402: absent or not a reset token, return false; expired, delete
\* and return false; else recover the email and hash the new password
ResetPasswordFound(r) ==
    /\ At(r, "resetPassword", "found")
    /\ LET row == req[r].row
       IN  IF row = NoRow \/ ~StartsWithReset(row.identifier)
           THEN /\ req' = [req EXCEPT ![r].pc = "done", ![r].result = Returned(FALSE)]
                /\ UNCHANGED tokens
           ELSE IF Expired(row, now)
           THEN IF RowsOf(row.token) = {}
                THEN /\ req' = [req EXCEPT ![r].pc = "done", ![r].date = now,
                                           ![r].result = RecordNotFound]
                     /\ UNCHANGED tokens
                ELSE /\ tokens' = DeleteToken(row.token)
                     /\ req' = [req EXCEPT ![r].pc = "done", ![r].date = now,
                                           ![r].result = Returned(FALSE)]
           ELSE /\ req' = [req EXCEPT ![r].pc = "hashed", ![r].date = now,
                                      ![r].email = StripReset(row.identifier)]
                /\ UNCHANGED tokens
    /\ UNCHANGED <<now, store, opts, calls, forgiven, swept, nodeEnv, rateLimitStore, passed, users, logStore, minted, issued, trail, used>>

\* a reset that skips the credential update
ResetPasswordHashed_NoWrite(r) ==
    /\ At(r, "resetPassword", "hashed")
    /\ req' = [req EXCEPT ![r].pc = "updated"]
    /\ UNCHANGED <<now, store, opts, calls, forgiven, swept, nodeEnv, rateLimitStore, passed, users, tokens, logStore, minted,
                   issued, trail, used>>

\* lines 404-407: db.user.update({ where: { email }, data: { password } })
ResetPasswordHashed(r) ==
    /\ At(r, "resetPassword", "hashed")
    /\ IF FindUser(req[r].email) = NoUser
       THEN /\ req' = [req EXCEPT ![r].pc = "done", ![r].result = RecordNotFound]
            /\ UNCHANGED users
       ELSE /\ users' = [users EXCEPT
                            ![req[r].email].password = HashPassword(req[r].newPassword)]
            /\ req' = [req EXCEPT ![r].pc = "updated", ![r].writes = @ + 1]
    /\ UNCHANGED <<now, store, opts, calls, forgiven, swept, nodeEnv, rateLimitStore, passed, tokens, logStore, minted, issued, trail, used>>

\* line 410: delete the used token
ResetPasswordUpdated(r) ==
    /\ At(r, "resetPassword", "updated")
    /\ IF RowsOf(req[r].token) = {}
       THEN /\ req' = [req EXCEPT ![r].pc = "done", ![r].result = RecordNotFound]
            /\ UNCHANGED tokens
       ELSE /\ tokens' = DeleteToken(req[r].token)
            /\ req' = [req EXCEPT ![r].pc = "deleted"]
    /\ UNCHANGED <<now, store, opts, calls, forgiven, swept, nodeEnv, rateLimitStore, passed, users, logStore, minted, issued, trail, used>>

\* line 413: rateLimit.reset(`auth:${email}`)
ResetPasswordDeleted(r) ==
    /\ At(r, "resetPassword", "deleted")
    /\ store' = ResetStore(store, AuthKey(req[r].email))
    /\ req' = [req EXCEPT ![r].pc = "cleared"]
    /\ trail' = Noted(req[r].email, [kind |-> "P", at |-> now])
    /\ UNCHANGED <<now, opts, calls, forgiven, swept, nodeEnv, rateLimitStore, passed, users, tokens, logStore, minted, issued, used>>

\* lines 415-420: log PASSWORD_RESET_SUCCESS and return true
ResetPasswordCleared(r) ==
    /\ At(r, "resetPassword", "cleared")
    /\ logStore' = LogAuthEvent(logStore,
          Event("PASSWORD_RESET_SUCCESS", req[r].email, NoString, NoString, NoMeta), now)
    /\ req' = [req EXCEPT ![r].pc = "done",
                          ![r].logged = Append(@, Event("PASSWORD_RESET_SUCCESS", req[r].email, NoString, NoString, NoMeta)),
                          ![r].result = Returned(TRUE)]
    /\ used' = used \cup {req[r].token}
    /\ UNCHANGED <<now, store, opts, calls, forgiven, swept, nodeEnv, rateLimitStore, passed, users, tokens, minted, issued, trail>>

\* ------------------------------------------------------------ changePassword
UserIds == {"u1", "u2", "u9"}
\* db.user.findUnique({ where: { id } }) : the email the record is stored under
EmailsById(id) == {e \in Emails : users[e] # NoUser /\ users[e].id = id}
EmailById(id) == IF EmailsById(id) = {} THEN NoEmail ELSE CHOOSE e \in EmailsById(id) : TRUE
FindUserById(id) == IF EmailsById(id) = {} THEN NoUser ELSE users[EmailById(id)]

\* lines 431-434: db.user.findUnique({ where: { id: userId } })
StartChangePassword(r, userId, currentPassword, newPassword) ==
    /\ Free(r)
    /\ req' = [req EXCEPT ![r] = [IdleReq EXCEPT !.op = "changePassword", !.pc = "found",
                  !.userId = userId, !.password = currentPassword,
                  !.newPassword = newPassword, !.email = EmailById(userId),
                  !.user = FindUserById(userId), !.reads = 1]]
    /\ UNCHANGED <<now, store, opts, calls, forgiven, swept, nodeEnv, rateLimitStore, passed, users, tokens, logStore, minted,
                   issued, trail, used>>

\* lines 436-450: no user or no hash, return the failure; wrong current
\* password, log PASSWORD_CHANGE_FAILED and return the failure; else hash
ChangePasswordFound(r) ==
    /\ At(r, "changePassword", "found")
    /\ LET u == req[r].user
       IN  IF u = NoUser \/ u.password = NoHash
           THEN /\ req' = [req EXCEPT ![r].pc = "done",
                      ![r].result = Returned([success |-> FALSE,
                                              error |-> "Kullanici bulunamadi"])]
                /\ UNCHANGED logStore
           ELSE IF ~VerifyPassword(req[r].password, u.password)
           THEN /\ logStore' = LogAuthEvent(logStore,
                      Event("PASSWORD_CHANGE_FAILED", req[r].email, u.id, NoString,
                            [reason |-> "INVALID_CURRENT_PASSWORD"]), now)
                /\ req' = [req EXCEPT ![r].pc = "done", ![r].compares = @ + 1,
                      ![r].logged = Append(@, Event("PASSWORD_CHANGE_FAILED", req[r].email, u.id, NoString, [reason |-> "INVALID_CURRENT_PASSWORD"])),
                      ![r].result = Returned([success |-> FALSE,
                                              error |-> "Mevcut sifre yanlis"])]
           ELSE /\ req' = [req EXCEPT ![r].pc = "hashed", ![r].compares = @ + 1]
                /\ UNCHANGED logStore
    /\ UNCHANGED <<now, store, opts, calls, forgiven, swept, nodeEnv, rateLimitStore, passed, users, tokens, minted, issued,
                   trail, used>>

\* lines 452-457: db.user.update({ where: { id: userId }, data: { password } })
ChangePasswordHashed(r) ==
    /\ At(r, "changePassword", "hashed")
    /\ IF EmailsById(req[r].userId) = {}
       THEN /\ req' = [req EXCEPT ![r].pc = "done", ![r].result = RecordNotFound]
            /\ UNCHANGED users
       ELSE /\ users' = [users EXCEPT ![EmailById(req[r].userId)].password =
                                          HashPassword(req[r].newPassword)]
            /\ req' = [req EXCEPT ![r].pc = "updated", ![r].writes = @ + 1]
    /\ UNCHANGED <<now, store, opts, calls, forgiven, swept, nodeEnv, rateLimitStore, passed, tokens, logStore, minted, issued,
                   trail, used>>

\* lines 459-465: log PASSWORD_CHANGED and return success
ChangePasswordUpdated(r) ==
    /\ At(r, "changePassword", "updated")
    /\ logStore' = LogAuthEvent(logStore,
          Event("PASSWORD_CHANGED", req[r].email, req[r].user.id, NoString, NoMeta), now)
    /\ req' = [req EXCEPT ![r].pc = "done",
                  ![r].logged = Append(@, Event("PASSWORD_CHANGED", req[r].email, req[r].user.id, NoString, NoMeta)),
                  ![r].result = Returned([success |-> TRUE])]
    /\ UNCHANGED <<now, store, opts, calls, forgiven, swept, nodeEnv, rateLimitStore, passed, users, tokens, minted, issued,
                   trail, used>>

\* ------------------------------------------------------------------ routes
\* api-utils.ts: successResponse, errorResponse, serverErrorResponse
SuccessResponse(data) == [status |-> 200, body |-> [success |-> TRUE, data |-> data]]
ErrorResponse(message, status, code) ==
    [status |-> status, body |-> [success |-> FALSE, error |-> message, code |-> code]]
ServerErrorResponse(error) ==
    ErrorResponse(IF nodeEnv = "development" THEN error.code ELSE "Sunucu hatasi",
                  500, "INTERNAL_ERROR")
\* the 429 answer of a route whose rate check failed
RouteRateLimited(result) ==
    [status |-> 429,
     body |-> [success |-> FALSE,
               error |-> <<"Cok fazla deneme.", CeilDiv(OrZero(result.remainingMs), 60000),
                           "dakika sonra tekrar deneyin.">>,
               code |-> "RATE_LIMIT_EXCEEDED"],
     retryAfter |-> CeilDiv(OrZero(result.remainingMs), 1000)]
\* validateRequest failing on the schema
ValidationError ==
    [status |-> 400,
     body |-> [success |-> FALSE, error |-> "Dogrulama hatasi", code |-> "VALIDATION_ERROR"]]
\* resetPasswordSchema: at least 8 characters, a lower case letter, an upper
\* case letter and a digit
ValidPassword(password) == password \in Passwords
RoutePasswords == Passwords \cup {"abc"}

\* RESET_PASSWORD_RATE_LIMIT, FORGOT_PASSWORD_RATE_LIMIT
ResetRoutePolicy == [maxAttempts |-> 5, windowMs |-> 3600000]
ForgotRoutePolicy == [maxAttempts |-> 3, windowMs |-> 3600000]

\* reset-password route, lines 35-40: rateLimit.check(`reset-password:${clientIp}`)
StartResetRoute(r, token, password) ==
    /\ Free(r)
    /\ LET o == CheckOutcome(store[ResetRouteKey(ClientIp)], now, ResetRoutePolicy)
       IN  /\ store' = [store EXCEPT ![ResetRouteKey(ClientIp)] = o.entry]
           /\ req' = [req EXCEPT ![r] = [IdleReq EXCEPT !.op = "resetRoute",
                         !.pc = "checked", !.route = "reset-password", !.token = token,
                         !.newPassword = password, !.rl = o.result]]
    /\ UNCHANGED <<now, opts, calls, forgiven, swept, nodeEnv, rateLimitStore, passed, users, tokens, logStore, minted,
                   issued, trail, used>>

\* lines 42-69: rate limited, 429; invalid body, 400; else
\* resetPasswordWithToken(token, password) is entered: findUnique
ResetRouteChecked(r) ==
    /\ At(r, "resetRoute", "checked")
    /\ IF ~req[r].rl.success
       THEN req' = [req EXCEPT ![r].pc = "done",
                                ![r].response = RouteRateLimited(req[r].rl)]
       ELSE IF ~ValidPassword(req[r].newPassword)
       THEN req' = [req EXCEPT ![r].pc = "done", ![r].response = ValidationError]
       ELSE req' = [req EXCEPT ![r].op = "resetPassword", ![r].pc = "found",
                                ![r].row = FindToken(req[r].token), ![r].begun = now,
                                ![r].wasUsed = req[r].token \in used]
    /\ UNCHANGED <<now, store, opts, calls, forgiven, swept, nodeEnv, rateLimitStore, passed, users, tokens, logStore,
                   minted, issued, trail, used>>

\* lines 71-91: false, log PASSWORD_RESET_FAILED and answer INVALID_TOKEN;
\* true, answer success; thrown, answer 500
ResetRouteReturned(r) ==
    /\ At(r, "resetPassword", "done")
    /\ req[r].route = "reset-password"
    /\ req[r].response = NoResult
    /\ IF req[r].result.kind = "throw"
       THEN /\ req' = [req EXCEPT ![r].response = ServerErrorResponse(req[r].result)]
            /\ UNCHANGED logStore
       ELSE IF req[r].result.value = FALSE
       THEN /\ logStore' = LogAuthEvent(logStore,
                  Event("PASSWORD_RESET_FAILED", NoEmail, NoString, ClientIp,
                        [reason |-> "INVALID_OR_EXPIRED_TOKEN"]), now)
            /\ req' = [req EXCEPT
                  ![r].logged = Append(@, Event("PASSWORD_RESET_FAILED", NoEmail, NoString, ClientIp, [reason |-> "INVALID_OR_EXPIRED_TOKEN"])),
                  ![r].response = ErrorResponse("Gecersiz veya suresi dolmus baglanti",
                                                400, "INVALID_TOKEN")]
       ELSE /\ req' = [req EXCEPT
                  ![r].response = SuccessResponse([message |-> "Sifreniz degistirildi"])]
            /\ UNCHANGED logStore
    /\ UNCHANGED <<now, store, opts, calls, forgiven, swept, nodeEnv, rateLimitStore, passed, users, tokens, minted,
                   issued, trail, used>>

\* ------------------------------------------------------ forgot-password route
\* request bodies: the email field as submitted
RawEmails == {"a@x.com", "A@X.COM", "n@x.com", "nobody"}
\* forgotPasswordSchema: z.string().email()
ValidEmail(raw) == raw # "nobody"
\* line 56: email.toLowerCase().trim()
NormalizedEmail(raw) == IF raw \in {"a@x.com", "A@X.COM"} THEN EmailA ELSE EmailN

\* lines 24-29: rateLimit.check(`forgot-password:${clientIp}`)
StartForgotRoute(r, raw) ==
    /\ Free(r)
    /\ minted < MaxTokens
    /\ LET o == CheckOutcome(store[ForgotRouteKey(ClientIp)], now, ForgotRoutePolicy)
       IN  /\ store' = [store EXCEPT ![ForgotRouteKey(ClientIp)] = o.entry]
           /\ req' = [req EXCEPT ![r] = [IdleReq EXCEPT !.op = "forgotRoute",
                         !.pc = "checked", !.route = "forgot-password", !.body = raw,
                         !.rl = o.result]]
    /\ UNCHANGED <<now, opts, calls, forgiven, swept, nodeEnv, rateLimitStore, passed, users, tokens, logStore, minted,
                   issued, trail, used>>

\* lines 31-59: rate limited, 429; invalid body, 400; else
\* generatePasswordResetToken(normalizedEmail) is entered: findUnique
ForgotRouteChecked(r) ==
    /\ At(r, "forgotRoute", "checked")
    /\ IF ~req[r].rl.success
       THEN req' = [req EXCEPT ![r].pc = "done",
                                ![r].response = RouteRateLimited(req[r].rl)]
       ELSE IF ~ValidEmail(req[r].body)
       THEN req' = [req EXCEPT ![r].pc = "done", ![r].response = ValidationError]
       ELSE req' = [req EXCEPT ![r].op = "generatePasswordReset", ![r].pc = "found",
                                ![r].email = NormalizedEmail(req[r].body),
                                ![r].user = FindUser(NormalizedEmail(req[r].body)),
                                ![r].reads = 1]
    /\ UNCHANGED <<now, store, opts, calls, forgiven, swept, nodeEnv, rateLimitStore, passed, users, tokens, logStore,
                   minted, issued, trail, used>>

\* lines 64-99: a token, log with tokenGenerated true and, in development,
\* answer with the token; null, log with tokenGenerated false; otherwise
\* answer the same message; thrown, answer 500
ForgotRouteReturned(r) ==
    /\ At(r, "generatePasswordReset", "done")
    /\ req[r].route = "forgot-password"
    /\ req[r].response = NoResult
    /\ IF req[r].result.kind = "throw"
       THEN /\ req' = [req EXCEPT ![r].response = ServerErrorResponse(req[r].result)]
            /\ UNCHANGED logStore
       ELSE LET generated == ~req[r].result.null
                event == Event("PASSWORD_RESET_REQUESTED", req[r].email, NoString, ClientIp,
                               IF generated
                               THEN [tokenGenerated |-> TRUE]
                               ELSE [tokenGenerated |-> FALSE, reason |-> "USER_NOT_FOUND"])
            IN  /\ logStore' = LogAuthEvent(logStore, event, now)
                /\ req' = [req EXCEPT
                      ![r].logged = Append(@, event),
                      ![r].response =
                          IF generated /\ nodeEnv = "development"
                          THEN SuccessResponse([message |-> "Sifre sifirlama baglantisi gonderildi",
                                                resetToken |-> req[r].result.value])
                          ELSE SuccessResponse([message |-> "Eger bu email adresi kayitliysa, sifre sifirlama baglantisi gonderilecektir."])]
    /\ UNCHANGED <<now, store, opts, calls, forgiven, swept, nodeEnv, rateLimitStore, passed, users, tokens, minted,
                   issued, trail, used>>

\* ------------------------------------------------- event log query calls
\* Each function runs to its return without an await: one step per call.
\* The value returned is kept under the name of what it is.
CallCleanupOldLogs(r, maxAgeMs) ==
    /\ Free(r)
    /\ LET o == CleanupOldLogs(logStore, maxAgeMs, now)
       IN  /\ logStore' = o.log
           /\ req' = [req EXCEPT ![r] = [IdleReq EXCEPT !.op = "cleanupOldLogs",
                         !.pc = "done", !.maxAgeMs = maxAgeMs, !.date = now,
                         !.result = Returned([removed |-> o.removed])]]
    /\ UNCHANGED <<now, store, opts, calls, forgiven, swept, nodeEnv, rateLimitStore, passed,
                   users, tokens, minted, issued, trail, used>>

CallDetectSuspiciousActivity(r, email) ==
    /\ Free(r)
    /\ req' = [req EXCEPT ![r] = [IdleReq EXCEPT !.op = "detectSuspiciousActivity",
                  !.pc = "done", !.email = email, !.date = now,
                  !.result = Returned(DetectSuspiciousActivity(logStore, email, now))]]
    /\ UNCHANGED <<now, store, opts, calls, forgiven, swept, nodeEnv, rateLimitStore, passed,
                   users, tokens, logStore, minted, issued, trail, used>>

CallGetAuthEventsForUser(r, userId, limit) ==
    /\ Free(r)
    /\ req' = [req EXCEPT ![r] = [IdleReq EXCEPT !.op = "getAuthEventsForUser",
                  !.pc = "done", !.userId = userId, !.limit = limit,
                  !.result = Returned([entries |-> GetAuthEventsForUser(logStore, userId, limit)])]]
    /\ UNCHANGED <<now, store, opts, calls, forgiven, swept, nodeEnv, rateLimitStore, passed,
                   users, tokens, logStore, minted, issued, trail, used>>

CallGetAuthEventsByType(r, type, limit) ==
    /\ Free(r)
    /\ req' = [req EXCEPT ![r] = [IdleReq EXCEPT !.op = "getAuthEventsByType",
                  !.pc = "done", !.filter = type, !.limit = limit,
                  !.result = Returned([entries |-> GetAuthEventsByType(logStore, type, limit)])]]
    /\ UNCHANGED <<now, store, opts, calls, forgiven, swept, nodeEnv, rateLimitStore, passed,
                   users, tokens, logStore, minted, issued, trail, used>>

\* ------------------------------------------------------ rate limited handler
\* apiRateLimiter: createRateLimiter({maxRequests: 100, windowMs: 60 * 1000})
API_MAX_REQUESTS == 100
API_WINDOW_MS == 60000
ApiPolicy == [maxAttempts |-> API_MAX_REQUESTS, windowMs |-> API_WINDOW_MS]
\* the limit and windowMs arguments given to withRateLimit
WrapperLimits == {1, 2}
WrapperWindows == {API_WINDOW_MS}

\* rateLimitResponse(retryAfter): the Retry-After it sets when retryAfter is truthy
RateLimitResponse(retryAfter) ==
    [status |-> 429,
     body |-> [success |-> FALSE, error |-> "Cok fazla istek", code |-> "RATE_LIMIT_EXCEEDED"],
     retryAfter |-> IF retryAfter = Undefined \/ retryAfter = 0 THEN Undefined
                    ELSE CeilDiv(retryAfter, 1000)]
\* setRateLimitHeaders(response, remaining, limit, resetMs)
SetRateLimitHeaders(response, remaining, limit, resetMs) ==
    [response |-> response,
     headers |-> [limit |-> limit, remaining |-> Max0(remaining),
                  retryAfter |-> IF resetMs = Undefined THEN Undefined
                                 ELSE CeilDiv(resetMs, 1000)]]

\* withRateLimit, line 256: await apiRateLimiter(request), which is
\* rateLimit.check(`api:${ip}`, {maxAttempts: 100, windowMs: 60000}); the limit
\* and windowMs arguments of the wrapper are not passed to it
StartWithRateLimit(r, limit, windowMs) ==
    /\ Free(r)
    /\ LET o == CheckOutcome(store[ApiKey(ClientIp)], now, ApiPolicy)
       IN  /\ o.entry.count <= MaxApiCount
           /\ store' = [store EXCEPT ![ApiKey(ClientIp)] = o.entry]
           /\ req' = [req EXCEPT ![r] = [IdleReq EXCEPT !.op = "withRateLimit",
                         !.pc = "checked", !.route = "api", !.limit = limit,
                         !.maxAgeMs = windowMs, !.nth = o.entry.count, !.begun = now,
                         !.rl = o.result]]
    /\ UNCHANGED <<now, opts, calls, forgiven, swept, nodeEnv, rateLimitStore, passed, users, tokens, logStore, minted,
                   issued, trail, used>>

\* lines 258-263: rejected, the 429 response with the headers; else the
\* handler is called
WithRateLimitChecked(r) ==
    /\ At(r, "withRateLimit", "checked")
    /\ IF ~req[r].rl.success
       THEN req' = [req EXCEPT ![r].pc = "done",
                       ![r].response =
                           SetRateLimitHeaders(RateLimitResponse(req[r].rl.remainingMs), 0,
                                               req[r].limit, req[r].rl.remainingMs)]
       ELSE req' = [req EXCEPT ![r].pc = "handling", ![r].handled = TRUE]
    /\ UNCHANGED <<now, store, opts, calls, forgiven, swept, nodeEnv, rateLimitStore, passed, users, tokens, logStore,
                   minted, issued, trail, used>>

\* lines 263-264: the handler has answered; its response gets the headers
WithRateLimitHandled(r) ==
    /\ At(r, "withRateLimit", "handling")
    /\ req' = [req EXCEPT ![r].pc = "done",
                   ![r].response =
                       SetRateLimitHeaders(SuccessResponse([handled |-> TRUE]),
                                           req[r].rl.remaining, req[r].limit, Undefined)]
    /\ UNCHANGED <<now, store, opts, calls, forgiven, swept, nodeEnv, rateLimitStore, passed, users, tokens, logStore,
                   minted, issued, trail, used>>

\* -------------------------------------------------------------- middleware
\* middleware, lines 73-74: isAuthRoute ? 20 : 100 requests per 60000 ms
MIDDLEWARE_AUTH_LIMIT == 20
MIDDLEWARE_API_LIMIT == 100
MIDDLEWARE_WINDOW_MS == 60000

\* request paths, cut where the prefixes the middleware tests end
Paths == {<<"/api", "/auth", "/login">>, <<"/api", "/auth", "ors">>, <<"/api", "/tasks">>,
          <<"/dashboard">>}
\* pathname.startsWith('/api'), pathname.startsWith('/api/auth')
StartsWithApi(path) == path[1] = "/api"
IsAuthRoute(path) == Len(path) >= 2 /\ path[1] = "/api" /\ path[2] = "/auth"

\* a window that is over already when exactly windowMs have passed
EntryExpired_Inclusive(entry, t, windowMs) == t - entry.timestamp >= windowMs
\* checkRateLimit, line 29: now - entry.timestamp > windowMs
EntryExpired(entry, t, windowMs) == t - entry.timestamp > windowMs
\* a test that lets one request more through
LimitReached_Above(entry, limit) == entry.count > limit
\* checkRateLimit, line 34: entry.count >= limit
LimitReached(entry, limit) == entry.count >= limit

\* checkRateLimit: the entry left in rateLimitStore and the boolean returned
CheckRateLimit(entry, t, limit, windowMs) ==
    IF entry = NoEntry
    THEN [entry |-> [count |-> 1, timestamp |-> t], allowed |-> TRUE]
    ELSE IF EntryExpired(entry, t, windowMs)
    THEN [entry |-> [count |-> 1, timestamp |-> t], allowed |-> TRUE]
    ELSE IF LimitReached(entry, limit)
    THEN [entry |-> entry, allowed |-> FALSE]
    ELSE [entry |-> [entry EXCEPT !.count = entry.count + 1], allowed |-> TRUE]

\* lines 77-90: the 429 response; lines 94-95: NextResponse.next() with the
\* security headers, Strict-Transport-Security in production only
TooManyRequests == [kind |-> "response", status |-> 429, retryAfter |-> 60]
PassedOn == [kind |-> "next", status |-> Undefined, hsts |-> nodeEnv = "production"]

\* the path lies under /api/auth
UnderApiAuth(path) == IsAuthRoute(path) /\ (Len(path) = 2 \/ path[3] = "/login")
\* history: the requests passed on in the window that began with the address's
\* first counted request, or with the first one more than 60 s after that
Counted(p, path, t) ==
    IF p.start = Undefined \/ t - p.start > MIDDLEWARE_WINDOW_MS
    THEN [start |-> t, auth |-> IF UnderApiAuth(path) THEN 1 ELSE 0, total |-> 1]
    ELSE [p EXCEPT !.auth = IF UnderApiAuth(path) THEN @ + 1 ELSE @, !.total = @ + 1]

\* middleware(request), lines 64-97
Middleware(r, ip, path) ==
    /\ Free(r)
    /\ LET limit == IF IsAuthRoute(path) THEN MIDDLEWARE_AUTH_LIMIT ELSE MIDDLEWARE_API_LIMIT
           o == CheckRateLimit(rateLimitStore[MiddlewareKey(ip)], now, limit,
                               MIDDLEWARE_WINDOW_MS)
       IN  IF StartsWithApi(path)
           THEN /\ rateLimitStore' = [rateLimitStore EXCEPT ![MiddlewareKey(ip)] = o.entry]
                /\ passed' = IF o.allowed
                             THEN [passed EXCEPT ![ip] = Counted(@, path, now)]
                             ELSE passed
                /\ req' = [req EXCEPT ![r] = [IdleReq EXCEPT !.op = "middleware",
                              !.pc = "done", !.route = "middleware", !.path = path,
                              !.body = ip, !.date = now,
                              !.response = IF o.allowed THEN PassedOn ELSE TooManyRequests]]
           ELSE /\ req' = [req EXCEPT ![r] = [IdleReq EXCEPT !.op = "middleware",
                              !.pc = "done", !.route = "middleware", !.path = path,
                              !.body = ip, !.date = now, !.response = PassedOn]]
                /\ UNCHANGED <<rateLimitStore, passed>>
    /\ UNCHANGED <<now, store, opts, calls, forgiven, swept, nodeEnv, users, tokens, logStore, minted,
                   issued, trail, used>>

\* the setInterval callback, lines 9-16
MiddlewareCleanup ==
    /\ rateLimitStore' =
           [k \in DOMAIN rateLimitStore |->
               IF rateLimitStore[k] # NoEntry /\ now - rateLimitStore[k].timestamp > 60000
               THEN NoEntry ELSE rateLimitStore[k]]
    /\ UNCHANGED <<now, store, opts, calls, forgiven, swept, nodeEnv, passed, users, tokens, logStore, req, minted,
                   issued, trail, used>>

\* --------------------------------------------------------- timers and clock
\* setInterval(() => this.cleanup(), 5 * 60 * 1000)
Cleanup ==
    /\ Stale(store, now) # {}
    /\ store' = CleanupStore(store, now)
    /\ UNCHANGED <<now, opts, calls, forgiven, swept, nodeEnv, rateLimitStore, passed, users, tokens, logStore, req, minted, issued,
                   trail, used>>

Tick(clock) ==
    /\ \E t \in clock : t > now /\ now' = t
    /\ UNCHANGED <<store, opts, calls, forgiven, swept, nodeEnv, rateLimitStore, passed, users, tokens, logStore, req, minted, issued,
                   trail, used>>

\* ------------------------------------------------------------ initial state
\* the accounts: one with a password, one of an external provider only, and
\* an email without a user
InitialUsers ==
    [e \in Emails |->
        IF e = EmailA
        THEN [id |-> "u1", password |-> HashPassword("Abcdefg1"), emailVerified |-> NullDate]
        ELSE IF e = EmailO
        THEN [id |-> "u2", password |-> NoHash, emailVerified |-> NullDate]
        ELSE NoUser]

InitData ==
    /\ users = InitialUsers
    /\ tokens = {}
    /\ logStore = <<>>
    /\ req = [r \in Slots |-> IdleReq]
    /\ minted = 0
    /\ issued = {}
    /\ trail = [e \in Emails |-> <<>>]
    /\ used = {}
    /\ rateLimitStore = [k \in MiddlewareKeys |-> NoEntry]
    /\ passed = [ip \in Ips |-> [start |-> Undefined, auth |-> 0, total |-> 0]]

InitAuth ==
    /\ nodeEnv = "production"
    /\ InitData

Init ==
    /\ now = 0
    /\ store = [k \in Keys |-> NoEntry]
    /\ opts = LoginPolicy
    /\ calls = [k \in RLKeys |-> <<>>]
    /\ forgiven = {}
    /\ swept = {}
    /\ InitAuth

\* ------------------------------------------------------------ specifications
Tokens == 1..MaxTokens
PasswordInputs == Passwords \cup {""}

\* Login orchestrator: logins and password resets of one account, run one
\* after the other, with the limiter's sweep.  The clock has the instants
\* around the lockout window and one late enough for the sweep.
LoginClock == {0, LOCKOUT_MS, LOCKOUT_MS + 1, LOCKOUT_MS + CLEANUP_MAX_AGE + 2}

Next ==
    \/ \E p \in PasswordInputs : StartLogin(1, EmailA, p)
    \/ LoginCheck(1)
    \/ LoginChecked(1)
    \/ LoginFound(1)
    \/ LoginVerified(1)
    \/ minted < MaxLoginTokens /\ StartGeneratePasswordReset(1, EmailA)
    \/ GeneratePasswordResetFound(1)
    \/ GeneratePasswordResetCreate(1)
    \/ GeneratePasswordResetLog(1)
    \/ \E t \in Tokens, p \in Passwords : StartResetPassword(1, t, p)
    \/ ResetPasswordFound(1)
    \/ ResetPasswordHashed(1)
    \/ ResetPasswordUpdated(1)
    \/ ResetPasswordDeleted(1)
    \/ ResetPasswordCleared(1)
    \/ Cleanup
    \/ Tick(LoginClock)

Spec == Init /\ [][Next]_vars

\* ------------------------------------------- login attempts of two callers
\* Two callers log in at the same time, to any of the accounts and to an email
\* that has none; an email is tried while its entry counts fewer than
\* MaxEnumCount attempts, so every attempt passes the rate check.
NextEnum ==
    \/ \E r \in Slots, e \in Emails, p \in Passwords :
          /\ store[AuthKey(e)] # NoEntry => store[AuthKey(e)].count < MaxEnumCount
          /\ StartLogin(r, e, p)
    \/ \E r \in Slots : LoginCheck(r)
    \/ \E r \in Slots : LoginChecked(r)
    \/ \E r \in Slots : LoginFound(r)
    \/ \E r \in Slots : LoginVerified(r)

SpecEnum == Init /\ [][NextEnum]_vars

\* ------------------------------------------------ token flows, one at a time
\* Tokens of both kinds are issued and consumed, one operation after the other.
\* The clock has the instants at and just after the reset token's lifetime and
\* one after the verification token's.
TokClock == {0, RESET_TTL_MS, RESET_TTL_MS + 1, VERIFY_TTL_MS + 1}

NextTok ==
    \/ StartGenerateVerification(1, EmailA)
    \/ GenerateVerificationCreate(1)
    \/ \E e \in {EmailA, EmailN} : StartGeneratePasswordReset(1, e)
    \/ GeneratePasswordResetFound(1)
    \/ GeneratePasswordResetCreate(1)
    \/ GeneratePasswordResetLog(1)
    \/ \E t \in Tokens : StartVerifyEmail(1, t)
    \/ VerifyEmailFound(1)
    \/ VerifyEmailUpdated(1)
    \/ VerifyEmailDeleted(1)
    \/ \E t \in Tokens : StartResetPassword(1, t, "Zyxwvut9")
    \/ ResetPasswordFound(1)
    \/ ResetPasswordHashed(1)
    \/ ResetPasswordUpdated(1)
    \/ ResetPasswordDeleted(1)
    \/ ResetPasswordCleared(1)
    \/ Tick(TokClock)

SpecTok == Init /\ [][NextTok]_vars

\* ------------------------------------------------- token issue, interleaved
\* Two requests issue tokens for one account at the same time: each store step
\* of one may fall between the steps of the other.
IssueClock == {0, 1}

NextIssue ==
    \/ \E r \in Slots : StartGenerateVerification(r, EmailA)
    \/ \E r \in Slots : GenerateVerificationCreate(r)
    \/ \E r \in Slots : StartGeneratePasswordReset(r, EmailA)
    \/ \E r \in Slots : GeneratePasswordResetFound(r)
    \/ \E r \in Slots : GeneratePasswordResetCreate(r)
    \/ \E r \in Slots : GeneratePasswordResetLog(r)
    \/ Tick(IssueClock)

SpecIssue == Init /\ [][NextIssue]_vars

\* ---------------------------------------------------- password changes
\* Password changes of a password account, of an account without a password
\* and of an unknown id, one after the other.
ChangeClock == {0, 1}

NextChange ==
    \/ \E id \in UserIds, current \in Passwords, new \in Passwords :
          StartChangePassword(1, id, current, new)
    \/ ChangePasswordFound(1)
    \/ ChangePasswordHashed(1)
    \/ ChangePasswordUpdated(1)
    \/ Tick(ChangeClock)

SpecChange == Init /\ [][NextChange]_vars

\* ------------------------------------------------- password reset requests
\* Logins that fail, for an account that gets locked out and for a second
\* account, reset tokens issued for the first, and reset-password requests,
\* one after the other.  The clock has one instant after the reset token's
\* lifetime.
ResetClock == {0, RESET_TTL_MS + 1}

\* the route has counted fewer than MaxRouteCount requests of the client
RouteOpen(key) == store[key] # NoEntry => store[key].count < MaxRouteCount

NextReset ==
    \/ StartLogin(1, EmailA, "Zyxwvut9")
    \/ store[AuthKey(EmailO)] = NoEntry /\ StartLogin(1, EmailO, "Zyxwvut9")
    \/ LoginCheck(1)
    \/ LoginChecked(1)
    \/ LoginFound(1)
    \/ LoginVerified(1)
    \/ StartGeneratePasswordReset(1, EmailA)
    \/ GeneratePasswordResetFound(1)
    \/ GeneratePasswordResetCreate(1)
    \/ GeneratePasswordResetLog(1)
    \/ \E t \in Tokens, p \in RoutePasswords :
          RouteOpen(ResetRouteKey(ClientIp)) /\ StartResetRoute(1, t, p)
    \/ ResetRouteChecked(1)
    \/ ResetPasswordFound(1)
    \/ ResetPasswordHashed(1)
    \/ ResetPasswordUpdated(1)
    \/ ResetPasswordDeleted(1)
    \/ ResetPasswordCleared(1)
    \/ ResetRouteReturned(1)
    \/ Tick(ResetClock)

SpecReset == Init /\ [][NextReset]_vars

\* ------------------------------------- concurrent reset-password requests
\* A reset token is issued for one account and reset-password requests of two
\* callers interleave at every store round trip.
NextResetRace ==
    \/ StartGeneratePasswordReset(1, EmailA)
    \/ GeneratePasswordResetFound(1)
    \/ GeneratePasswordResetCreate(1)
    \/ GeneratePasswordResetLog(1)
    \/ \E r \in Slots, t \in Tokens :
          RouteOpen(ResetRouteKey(ClientIp)) /\ StartResetRoute(r, t, "Zyxwvut9")
    \/ \E r \in Slots :
          \/ ResetRouteChecked(r)
          \/ ResetPasswordFound(r)
          \/ ResetPasswordHashed(r)
          \/ ResetPasswordUpdated(r)
          \/ ResetPasswordDeleted(r)
          \/ ResetPasswordCleared(r)
          \/ ResetRouteReturned(r)
    \/ Tick(ResetClock)

SpecResetRace == Init /\ [][NextResetRace]_vars

\* ------------------------------------------------ forgot-password requests
\* Forgot-password requests of two callers, for an existing and for an
\* unknown email, under either setting of NODE_ENV.
NodeEnvs == {"development", "production"}
ForgotClock == {0, RESET_TTL_MS}

InitForgot ==
    /\ now = 0
    /\ store = [k \in Keys |-> NoEntry]
    /\ opts = LoginPolicy
    /\ calls = [k \in RLKeys |-> <<>>]
    /\ forgiven = {}
    /\ swept = {}
    /\ nodeEnv \in NodeEnvs
    /\ InitData

NextForgot ==
    \/ \E r \in Slots, raw \in RawEmails :
          RouteOpen(ForgotRouteKey(ClientIp)) /\ StartForgotRoute(r, raw)
    \/ \E r \in Slots :
          \/ ForgotRouteChecked(r)
          \/ GeneratePasswordResetFound(r)
          \/ GeneratePasswordResetCreate(r)
          \/ GeneratePasswordResetLog(r)
          \/ ForgotRouteReturned(r)
    \/ Tick(ForgotClock)

SpecForgot == InitForgot /\ [][NextForgot]_vars

\* ------------------------------------------------------ concurrent logins
\* Two callers log in to one account with a wrong password, their requests
\* interleaved at every await, on a clock that passes the lockout window.
RaceClock == {0, 1, LOCKOUT_MS + 1, LOCKOUT_MS + 2}

NextLoginRace ==
    \/ \E r \in Slots : StartLogin(r, EmailA, "Zyxwvut9")
    \/ \E r \in Slots : LoginCheck(r)
    \/ \E r \in Slots : LoginChecked(r)
    \/ \E r \in Slots : LoginFound(r)
    \/ Tick(RaceClock)

SpecLoginRace == Init /\ [][NextLoginRace]_vars

\* --------------------------------------------------- event log specification
\* The queries and the cleanup of the event log, applied to buffers of the
\* entries the program logs, with non-decreasing timestamps: failed logins
\* of one email more than an hour old, failed logins of another email, failed
\* logins of the email from three addresses and from none, and its reset
\* requests.  The buffers are within the program's capacity of 10000 entries;
\* no event is logged here.
Entry(type, email, userId, ip, t) ==
    [type |-> type, email |-> email, userId |-> userId, ip |-> ip, metadata |-> NoMeta,
     timestamp |-> t]
Rep(n, x) == [i \in 1..n |-> x]
LogBuffers ==
    {   Rep(old, Entry("LOGIN_FAILED", EmailA, "u1", "10.0.0.1", 0))
     \o Rep(other, Entry("LOGIN_FAILED", EmailO, NoString, "10.0.0.3", 1))
     \o Rep(n1, Entry("LOGIN_FAILED", EmailA, "u1", "10.0.0.1", SUSPICIOUS_WINDOW_MS))
     \o Rep(n2, Entry("LOGIN_FAILED", EmailA, "u1", "10.0.0.2", SUSPICIOUS_WINDOW_MS))
     \o Rep(n3, Entry("LOGIN_FAILED", EmailA, "u1", "10.0.0.3", SUSPICIOUS_WINDOW_MS))
     \o Rep(n0, Entry("LOGIN_FAILED", EmailA, "u1", NoString, SUSPICIOUS_WINDOW_MS))
     \o Rep(r, Entry("PASSWORD_RESET_REQUESTED", EmailA, "u1", NoString,
                     SUSPICIOUS_WINDOW_MS + 1)) :
        old \in 0..1, other \in 0..1, n1 \in {0, 7, 8}, n2 \in 0..1, n3 \in 0..1,
        n0 \in 0..1, r \in {0, 4, 5}}
LogClock == {SUSPICIOUS_WINDOW_MS + 1, 2 * SUSPICIOUS_WINDOW_MS, 2 * SUSPICIOUS_WINDOW_MS + 1}
LogLimits == {0, 1, 2, 50}

InitLog ==
    /\ now = SUSPICIOUS_WINDOW_MS + 1
    /\ store = [k \in Keys |-> NoEntry]
    /\ opts = LoginPolicy
    /\ calls = [k \in RLKeys |-> <<>>]
    /\ forgiven = {}
    /\ swept = {}
    /\ nodeEnv = "production"
    /\ users = InitialUsers
    /\ tokens = {}
    /\ logStore \in LogBuffers
    /\ req = [r \in Slots |-> IdleReq]
    /\ minted = 0
    /\ issued = {}
    /\ trail = [e \in Emails |-> <<>>]
    /\ used = {}
    /\ rateLimitStore = [k \in MiddlewareKeys |-> NoEntry]
    /\ passed = [ip \in Ips |-> [start |-> Undefined, auth |-> 0, total |-> 0]]

NextLog ==
    \/ CallCleanupOldLogs(1, SUSPICIOUS_WINDOW_MS)
    \/ \E e \in {EmailA, EmailO} : CallDetectSuspiciousActivity(1, e)
    \/ \E l \in LogLimits : CallGetAuthEventsForUser(1, "u1", l)
    \/ \E t \in {"LOGIN_FAILED", "PASSWORD_RESET_REQUESTED"}, l \in LogLimits :
          CallGetAuthEventsByType(1, t, l)
    \/ Tick(LogClock)

SpecLog == InitLog /\ [][NextLog]_vars

\* -------------------------------------------- rate limited handler requests
\* requests of one address to wrapped handlers, within and after the minute
ApiClock == {0, 1, API_WINDOW_MS, API_WINDOW_MS + 1}
NextApi ==
    \/ \E r \in Slots, limit \in WrapperLimits, windowMs \in WrapperWindows :
            StartWithRateLimit(r, limit, windowMs)
    \/ \E r \in Slots : WithRateLimitChecked(r)
    \/ \E r \in Slots : WithRateLimitHandled(r)
    \/ Tick(ApiClock)
SpecApi == Init /\ [][NextApi]_vars

\* ----------------------------------------------------- middleware requests
\* requests of one address through the middleware, one after another, within
\* a window, at its last instant and after it, and the periodic sweep
MiddlewareClock == {0, 1, MIDDLEWARE_WINDOW_MS + 1, MIDDLEWARE_WINDOW_MS + 2,
                    2 * MIDDLEWARE_WINDOW_MS + 3}
NextMiddleware ==
    \/ \E ip \in Ips, path \in Paths : Middleware(1, ip, path)
    \/ MiddlewareCleanup
    \/ Tick(MiddlewareClock)
SpecMiddleware == Init /\ [][NextMiddleware]_vars

\* ------------------------------------------------- limiter-only specification
InitRL ==
    /\ now = 0
    /\ store = [k \in Keys |-> NoEntry]
    /\ opts \in Policies
    /\ calls = [k \in RLKeys |-> <<>>]
    /\ forgiven = {}
    /\ swept = {}
    /\ InitAuth

RLCheck(k) ==
    /\ Len(calls[k]) < MaxCalls
    /\ LET o == CheckOutcome(store[k], now, opts)
       IN  /\ store' = [store EXCEPT ![k] = o.entry]
           /\ calls' = [calls EXCEPT ![k] = Append(@, [at |-> now, result |-> o.result])]
    /\ UNCHANGED <<now, opts, forgiven, swept>>
    /\ UNCHANGED authVars

\* the next check of key k would be rejected
RLLimited(k) ==
    /\ store[k] # NoEntry
    /\ ~(now - store[k].firstAttempt > opts.windowMs)
    /\ store[k].count >= opts.maxAttempts

RLReset(k) ==
    /\ store' = ResetStore(store, k)
    /\ calls' = [calls EXCEPT ![k] = <<>>]
    /\ forgiven' = IF RLLimited(k) THEN forgiven \cup {k} ELSE forgiven \ {k}
    /\ swept' = swept \ {k}
    /\ UNCHANGED <<now, opts>>
    /\ UNCHANGED authVars

RLCleanup ==
    /\ Stale(store, now) # {}
    /\ store' = CleanupStore(store, now)
    /\ calls' = [k \in RLKeys |-> IF k \in Stale(store, now) THEN <<>> ELSE calls[k]]
    /\ swept' = swept \cup (Stale(store, now) \cap RLKeys)
    /\ UNCHANGED <<now, opts, forgiven>>
    /\ UNCHANGED authVars

RLClock == (0..MaxClock) \cup {CLEANUP_MAX_AGE + MaxClock + 1}

RLTick ==
    /\ \E t \in RLClock : t > now /\ now' = t
    /\ UNCHANGED <<store, opts, calls, forgiven, swept>>
    /\ UNCHANGED authVars

NextRL ==
    \/ \E k \in RLKeys : RLCheck(k)
    \/ \E k \in RLKeys : RLReset(k)
    \/ RLCleanup
    \/ RLTick

SpecRL == InitRL /\ [][NextRL]_vars

\* ------------------------------------------------------- sweep specification
\* Checks, resets and sweeps under policies whose window is a millisecond or
\* the full hour of the sweep's maxAge, on a clock with instants around both.
SweepPolicies == [maxAttempts : 1..MaxPolicyAttempts, windowMs : {1, CLEANUP_MAX_AGE}]
SweepClock == {0, 1, CLEANUP_MAX_AGE, CLEANUP_MAX_AGE + 1, 2 * CLEANUP_MAX_AGE + 2}

InitSweep ==
    /\ now = 0
    /\ store = [k \in Keys |-> NoEntry]
    /\ opts \in SweepPolicies
    /\ calls = [k \in RLKeys |-> <<>>]
    /\ forgiven = {}
    /\ swept = {}
    /\ InitAuth

NextSweep ==
    \/ \E k \in RLKeys : RLCheck(k)
    \/ \E k \in RLKeys : RLReset(k)
    \/ RLCleanup
    \/ Tick(SweepClock)

SpecSweep == InitSweep /\ [][NextSweep]_vars

\* -------------------------------------------------------------------- C1
\* the i-th check of key k since it was absent was made within the window that
\* the first of them opened
InWindow(k, i) == calls[k][i].at - calls[k][1].at <= opts.windowMs

\* C1 as stated: of the checks made on a previously unseen key within windowMs
\* of the first, exactly the first maxAttempts succeed, and the
\* (maxAttempts+1)-th, the first rejected one, carries remainingMs > 0.
C1_Original ==
    \A k \in RLKeys : \A i \in 1..Len(calls[k]) :
        InWindow(k, i) =>
            /\ calls[k][i].result.success <=> i <= opts.maxAttempts
            /\ i = opts.maxAttempts + 1 => calls[k][i].result.remainingMs > 0

\* C1 amended: of the checks made on a previously unseen key within windowMs of
\* the first, exactly the first maxAttempts succeed; a rejected one carries
\* remainingMs = windowMs - (t - firstAttempt), which is > 0 when it is made
\* less than windowMs after the first and 0 when made exactly windowMs after it.
C1_RejectedAfterMaxAttempts ==
    \A k \in RLKeys : \A i \in 1..Len(calls[k]) :
        InWindow(k, i) =>
            /\ calls[k][i].result.success <=> i <= opts.maxAttempts
            /\ i > opts.maxAttempts =>
                   /\ calls[k][i].result.remainingMs
                         = opts.windowMs - (calls[k][i].at - calls[k][1].at)
                   /\ calls[k][i].result.remainingMs > 0
                         <=> calls[k][i].at - calls[k][1].at < opts.windowMs

\* maxAttempts + 1 checks were made within the window and the last was rejected
C1_Witness ==
    \E k \in RLKeys :
        /\ Len(calls[k]) = opts.maxAttempts + 1
        /\ InWindow(k, Len(calls[k]))
        /\ ~calls[k][Len(calls[k])].result.success
        /\ calls[k][Len(calls[k])].result.remainingMs > 0

\* ----------------------------------------------------- login claims (Spec)
\* request r has just had its rate check: no time has passed since
JustChecked(r) == At(r, "login", "checked") /\ now = req[r].date
LoginDone(r) == At(r, "login", "done")
\* the login attempts noted for an email, password resets left out
Attempts(email) == SelectSeq(trail[email], LAMBDA m : m.kind # "P")
\* the last n marks of a sequence are all failed logins
LastAllFailed(marks, n) ==
    /\ Len(marks) >= n
    /\ \A i \in (Len(marks) - n + 1)..Len(marks) : marks[i].kind = "F"
SuppliesCorrectPassword(r) ==
    /\ FindUser(req[r].email) # NoUser
    /\ VerifyPassword(req[r].password, FindUser(req[r].email).password)

\* the last n attempts noted for the email of request r were checked in the
\* window of the limiter entry that the check of r has just counted in
InCurrentWindow(r, n) ==
    LET marks == trail[req[r].email]
    IN  \A i \in (Len(marks) - n + 1)..Len(marks) :
            marks[i].at >= store[AuthKey(req[r].email)].firstAttempt

\* C2 as stated: when the five login attempts before this one all ended in
\* LOGIN_FAILED and they and this attempt lie within 15 minutes, with no
\* successful login between them, this sixth attempt is rate limited.
C2_Original ==
    \A r \in Slots :
        (/\ JustChecked(r)
         /\ LastAllFailed(Attempts(req[r].email), 5)
         /\ req[r].date - Attempts(req[r].email)[Len(Attempts(req[r].email)) - 4].at
               <= LOCKOUT_MS)
        => ~req[r].rl.success

\* C2 amended: when the five attempts before this one all ended in
\* LOGIN_FAILED, were all checked in the limiter's current window for the email
\* (at or after the entry's firstAttempt), and neither a successful login nor a
\* successful password reset lies between them, this sixth attempt is rate
\* limited, and a rate-limited attempt ends in a RateLimitError.
C2_SixthAttemptRejected ==
    \A r \in Slots :
        /\ (/\ JustChecked(r)
            /\ LastAllFailed(trail[req[r].email], 5)
            /\ InCurrentWindow(r, 5))
           => ~req[r].rl.success
        /\ (LoginDone(r) /\ "success" \in DOMAIN req[r].rl /\ ~req[r].rl.success)
           => req[r].result.kind = "throw" /\ req[r].result.class = "RateLimitError"

\* five failed attempts in the current window, and the sixth, with the correct
\* password of the existing account, has been rejected by the rate check
C2_Witness ==
    \E r \in Slots :
        /\ JustChecked(r)
        /\ LastAllFailed(trail[req[r].email], 5)
        /\ InCurrentWindow(r, 5)
        /\ SuppliesCorrectPassword(r)
        /\ ~req[r].rl.success

\* the attempts noted since the last successful login, when it is still noted
SinceSuccess(email) ==
    IF trail[email] # <<>> /\ trail[email][1].kind = "S"
    THEN Len(trail[email]) - 1
    ELSE -1

\* C3: a successful login leaves no rate-limit entry for "auth:" + email; the
\* next attempt for the email passes the check as a first attempt (count 1, a
\* window starting at that attempt), and the first five attempts after the
\* success all pass the check.
C3_SuccessResetsLimit ==
    \A r \in Slots :
        /\ (LoginDone(r) /\ req[r].result.kind = "return")
           => store[AuthKey(req[r].email)] = NoEntry
        /\ (JustChecked(r) /\ SinceSuccess(req[r].email) = 0)
           => /\ req[r].rl.success
              /\ store[AuthKey(req[r].email)] = FreshEntry(req[r].date)
        /\ (JustChecked(r) /\ SinceSuccess(req[r].email) \in 0..4
               /\ \A i \in 1..Len(trail[req[r].email]) : trail[req[r].email][i].kind # "P")
           => req[r].rl.success

\* the fifth attempt after a successful login, the four before it failed, has
\* passed the rate check
C3_Witness ==
    \E r \in Slots :
        /\ JustChecked(r)
        /\ SinceSuccess(req[r].email) = 4
        /\ LastAllFailed(trail[req[r].email], 4)
        /\ req[r].rl.success
        /\ req[r].rl.remaining = 0

\* C5: a login attempt that failed the rate check has read no credential record
\* and compared no password, has appended exactly one event, of type
\* LOGIN_RATE_LIMITED, and ends in a RateLimitError.
C5_RateLimitedShortCircuits ==
    \A r \in Slots :
        (LoginDone(r) /\ "success" \in DOMAIN req[r].rl /\ ~req[r].rl.success)
        => /\ req[r].reads = 0
           /\ req[r].compares = 0
           /\ Len(req[r].logged) = 1
           /\ req[r].logged[1].type = "LOGIN_RATE_LIMITED"
           /\ logStore[Len(logStore)].type = "LOGIN_RATE_LIMITED"
           /\ req[r].result.kind = "throw"
           /\ req[r].result.class = "RateLimitError"
           /\ req[r].result.statusCode = 429

\* a rate-limited attempt that supplied the correct password has ended
C5_Witness ==
    \E r \in Slots :
        /\ LoginDone(r)
        /\ "success" \in DOMAIN req[r].rl
        /\ ~req[r].rl.success
        /\ SuppliesCorrectPassword(r)
        /\ req[r].result.class = "RateLimitError"

\* -------------------------------------------------- C4 (SpecEnum)
\* the reason logged by a login that ended in LOGIN_FAILED, else "none"
FailureReason(r) ==
    IF LoginDone(r) /\ req[r].logged # <<>> /\ req[r].logged[1].type = "LOGIN_FAILED"
    THEN req[r].logged[1].metadata.reason
    ELSE "none"

\* C4: of two login attempts that passed the rate check, one rejected for want
\* of a credential record or password hash (USER_NOT_FOUND) and one for a wrong
\* password (INVALID_PASSWORD), the errors returned are the same AuthError with
\* the same message and the code INVALID_CREDENTIALS.
C4_SameErrorForBothFailures ==
    \A r1 \in Slots, r2 \in Slots :
        (FailureReason(r1) = "USER_NOT_FOUND" /\ FailureReason(r2) = "INVALID_PASSWORD")
        => /\ req[r1].rl.success /\ req[r2].rl.success
           /\ req[r1].result = req[r2].result
           /\ req[r1].result.class = "AuthError"
           /\ req[r1].result.code = "INVALID_CREDENTIALS"

\* one caller was rejected for an email without an account, the other for a
\* wrong password of an existing account, and a third case, an account without
\* a password hash, is told from the first by the email only
C4_Witness ==
    \E r1 \in Slots, r2 \in Slots :
        /\ FailureReason(r1) = "USER_NOT_FOUND"
        /\ FindUser(req[r1].email) = NoUser
        /\ FailureReason(r2) = "INVALID_PASSWORD"
        /\ req[r1].result = req[r2].result

\* -------------------------------------------------- C6 (SpecIssue)
\* the identifiers that have a row in the token store
Identifiers == {row.identifier : row \in tokens}

\* C6 as stated: the token store never holds two rows for one identifier, the
\* two store steps of issuing interleaving freely between requests.
C6_AtMostOneTokenPerIdentifier ==
    \A id \in Identifiers : Cardinality({row \in tokens : row.identifier = id}) <= 1

\* ------------------------------------------------ token claims (SpecTok)
ConsumeDone(r) == req[r].op \in {"verifyEmail", "resetPassword"} /\ req[r].pc = "done"
\* the consume reported an invalid token: null, respectively false
Failed(r) ==
    /\ req[r].result.kind = "return"
    /\ IF req[r].op = "verifyEmail"
       THEN req[r].result.null
       ELSE ~req[r].result.null /\ req[r].result.value = FALSE
\* the consume succeeded: the identifier, respectively true
Succeeded(r) ==
    /\ req[r].result.kind = "return"
    /\ ~req[r].result.null
    /\ IF req[r].op = "verifyEmail"
       THEN req[r].result.value = req[r].row.identifier
       ELSE req[r].result.value = TRUE
\* the row looked up belongs to the flow of the operation
OwnFlow(r) ==
    /\ req[r].row # NoRow
    /\ (req[r].op = "resetPassword") <=> StartsWithReset(req[r].row.identifier)
\* a later token was issued for the identifier of this one
Superseded(token) ==
    \E old \in issued, new \in issued :
        old.token = token /\ new.identifier = old.identifier /\ new.token > token

\* C7: run one after the other, the first consume of an unexpired token in its
\* own flow succeeds, writes the credential once and deletes the row; a
\* consume of a token that has been consumed fails and writes no credential.
C7_ConsumableExactlyOnce ==
    \A r \in Slots :
        /\ (ConsumeDone(r) /\ OwnFlow(r) /\ ~(req[r].row.expires < req[r].date))
           => Succeeded(r) /\ req[r].writes = 1 /\ RowsOf(req[r].token) = {}
        /\ (ConsumeDone(r) /\ req[r].wasUsed)
           => Failed(r) /\ req[r].writes = 0 /\ req[r].row = NoRow

\* a token that had been consumed was presented again and refused
C7_Witness ==
    \E r \in Slots :
        /\ ConsumeDone(r)
        /\ req[r].wasUsed
        /\ req[r].token \in used
        /\ Failed(r)
        /\ req[r].writes = 0

C9_SecondTokenInvalidatesFirst ==
    \A r \in Slots :
        /\ (ConsumeDone(r) /\ Superseded(req[r].token))
           => Failed(r) /\ req[r].writes = 0
        /\ (ConsumeDone(r) /\ OwnFlow(r) /\ ~Superseded(req[r].token)
               /\ (\E old \in issued : Superseded(old.token))
               /\ ~(req[r].row.expires < req[r].date))
           => Succeeded(r)

\* the later token has been consumed, and the earlier one, never consumed, has
\* been presented and refused
C9_Witness ==
    \E r \in Slots :
        /\ ConsumeDone(r)
        /\ Superseded(req[r].token)
        /\ ~req[r].wasUsed
        /\ Failed(r)
        /\ \E new \in issued : new.token > req[r].token /\ new.token \in used

\* C10 as stated: a consume that finds a row of the other flow writes no
\* credential and reports an invalid token (null, respectively false).
C10_CrossNamespaceRejected ==
    \A r \in Slots :
        (ConsumeDone(r) /\ req[r].row # NoRow /\ ~OwnFlow(r))
        => req[r].writes = 0 /\ Failed(r)

\* ------------------------------------------------ limiter claims (SpecRL)
\* this step is a check of key k
CheckStep(k) == Len(calls'[k]) = Len(calls[k]) + 1
\* the result that the check of this step returned
Result(k) == calls'[k][Len(calls'[k])].result

\* C16: a check made more than windowMs after firstAttempt is allowed and
\* replaces the entry by count = 1, firstAttempt = lastAttempt = t, whatever
\* the count was; a check made within windowMs of firstAttempt keeps
\* firstAttempt and increases count by exactly 1.
C16_WindowResetOnlyAfterExpiry ==
    [][\A k \in RLKeys :
          (CheckStep(k) /\ store[k] # NoEntry) =>
              IF now - store[k].firstAttempt > opts.windowMs
              THEN /\ Result(k).success
                   /\ store'[k] = [count |-> 1, firstAttempt |-> now, lastAttempt |-> now]
              ELSE /\ store'[k].count = store[k].count + 1
                   /\ store'[k].firstAttempt = store[k].firstAttempt]_vars

\* a key was checked, rejected, and checked again after its window: allowed,
\* with a new entry that starts at that check
C16_Witness ==
    \E k \in RLKeys : \E i \in 1..(Len(calls[k]) - 1) :
        /\ ~calls[k][i].result.success
        /\ calls[k][i + 1].result.success
        /\ i + 1 = Len(calls[k])
        /\ store[k] = [count |-> 1, firstAttempt |-> calls[k][i + 1].at,
                       lastAttempt |-> calls[k][i + 1].at]

\* C17: the first check after reset(key) returns what a check of a never-seen
\* key returns (success, remaining = maxAttempts - 1); reset(key) removes the
\* entry of the key, changes the entry of no other key and changes nothing
\* when the key is absent.
C17_ResetForgets ==
    /\ [](\A k \in RLKeys :
             Len(calls[k]) >= 1 =>
                 /\ calls[k][1].result.success
                 /\ calls[k][1].result.remaining = opts.maxAttempts - 1
                 /\ calls[k][1].result.remainingMs = Undefined
                 /\ Len(calls[k]) = 1 => (store[k] # NoEntry /\ store[k].count = 1))
    /\ [][\A k \in RLKeys :
             RLReset(k) =>
                 /\ store'[k] = NoEntry
                 /\ \A j \in DOMAIN store : j # k => store'[j] = store[j]
                 /\ store[k] = NoEntry => store' = store]_vars

\* a key that was rate limited has been reset and checked once: allowed, while
\* the other key still has its entry
C17_Witness ==
    \E k \in RLKeys :
        /\ k \in forgiven
        /\ Len(calls[k]) = 1
        /\ calls[k][1].result.success
        /\ calls[k][1].result.remaining = opts.maxAttempts - 1
        /\ \E j \in RLKeys : j # k /\ store[j] # NoEntry

\* C18: a check returns remaining = maxAttempts - count, count taken after
\* the call, when it succeeds and remaining = 0 when it is rejected; remaining
\* is never negative; the first check of an unseen key succeeds with
\* remaining = maxAttempts - 1 and creates the entry with count = 1.
C18_RemainingIsAttemptsLeft ==
    [][\A k \in RLKeys :
          CheckStep(k) =>
              /\ Result(k).remaining
                    = IF Result(k).success THEN opts.maxAttempts - store'[k].count ELSE 0
              /\ Result(k).remaining >= 0
              /\ store[k] = NoEntry =>
                     /\ Result(k).success
                     /\ Result(k).remaining = opts.maxAttempts - 1
                     /\ store'[k].count = 1]_vars

\* a key has been checked up to its limit and once more: the last allowed
\* check returned remaining 0 and so did the rejected one
C18_Witness ==
    \E k \in RLKeys :
        /\ Len(calls[k]) = opts.maxAttempts + 1
        /\ calls[k][opts.maxAttempts].result.success
        /\ calls[k][opts.maxAttempts].result.remaining = 0
        /\ ~calls[k][opts.maxAttempts + 1].result.success
        /\ calls[k][opts.maxAttempts + 1].result.remaining = 0
        /\ store[k].count = opts.maxAttempts + 1

\* -------------------------------------------------------- C19 (Spec)
\* C19 as stated: the RateLimitError of a rate-limited login carries, as
\* retryAfter, the remainingMs that the rate check returned.
C19_RetryAfterCarried ==
    \A r \in Slots :
        (LoginDone(r) /\ "success" \in DOMAIN req[r].rl /\ ~req[r].rl.success)
        => /\ req[r].result.class = "RateLimitError"
           /\ req[r].result.retryAfter = req[r].rl.remainingMs

\* -------------------------------------------------------- C20 (SpecTok)
\* this step is a logAuthEvent call of request r
LogStep(r) ==
    /\ req'[r].op = req[r].op
    /\ Len(req'[r].logged) = Len(req[r].logged) + 1
\* the entry that the call of this step has built
Logged(r) ==
    LET event == req'[r].logged[Len(req'[r].logged)]
    IN  [type |-> event.type, email |-> event.email, userId |-> event.userId,
         ip |-> event.ip, metadata |-> event.metadata, timestamp |-> now]

\* C20: the buffer never holds more than MAX_LOG_ENTRIES entries and its
\* timestamps never decrease from first to last; a logAuthEvent call appends
\* the new entry at the end, a call on a full buffer also dropping the first
\* entry, and the entries that remain keep their content and order.
C20_LogBoundedOldestFirst ==
    /\ [](/\ Len(logStore) <= MAX_LOG_ENTRIES
          /\ \A i \in 1..Len(logStore) : \A j \in i..Len(logStore) :
                 logStore[i].timestamp <= logStore[j].timestamp)
    /\ [][\A r \in Slots :
             LogStep(r) =>
                 logStore' = IF Len(logStore) = MAX_LOG_ENTRIES
                             THEN Append(Tail(logStore), Logged(r))
                             ELSE Append(logStore, Logged(r))]_vars

\* the buffer is full and begins with the success of a password reset: the
\* request for that reset, logged before it, has been dropped
C20_Witness ==
    /\ Len(logStore) = MAX_LOG_ENTRIES
    /\ logStore[1].type = "PASSWORD_RESET_SUCCESS"
    /\ logStore[Len(logStore)].timestamp > logStore[1].timestamp

\* -------------------------------------------------------- C15 (SpecTok)
VerifyDone(r) == At(r, "verifyEmail", "done")

\* C15: verifyEmailToken with a present, unexpired verification token sets
\* the verified timestamp of the credential whose email is the token's
\* identifier, and of no other, deletes the token, logs EMAIL_VERIFIED and
\* returns the email; with an absent or expired token it returns null, logs
\* nothing and writes no credential.  A verified timestamp that is set is
\* never set back to null.
C15_VerifyEmailSetsTimestamp ==
    /\ [](\A r \in Slots :
             /\ (VerifyDone(r) /\ req[r].row # NoRow
                    /\ ~StartsWithReset(req[r].row.identifier)
                    /\ ~(req[r].row.expires < req[r].date))
                => /\ req[r].result = Returned(req[r].row.identifier)
                   /\ users[req[r].row.identifier].emailVerified = [at |-> req[r].date]
                   /\ RowsOf(req[r].token) = {}
                   /\ Len(req[r].logged) = 1
                   /\ req[r].logged[1].type = "EMAIL_VERIFIED"
                   /\ req[r].logged[1].email = req[r].row.identifier
             /\ (VerifyDone(r) /\ (req[r].row = NoRow \/ req[r].row.expires < req[r].date))
                => /\ req[r].result = ReturnedNull
                   /\ req[r].logged = <<>>
                   /\ req[r].writes = 0)
    /\ [][\A r \in Slots :
             VerifyEmailFound(r) =>
                 IF req[r].row = NoRow
                 THEN users' = users
                 ELSE \A e \in Emails : e # req[r].row.identifier => users'[e] = users[e]]_vars
    /\ [][\A e \in Emails :
             (users[e] # NoUser /\ users[e].emailVerified # NullDate)
             => (users'[e] # NoUser /\ users'[e].emailVerified # NullDate)]_vars

\* a verification token has been consumed after the clock moved: the account
\* is verified at that time, the other account is not
C15_Witness ==
    \E r \in Slots :
        /\ VerifyDone(r)
        /\ req[r].row # NoRow
        /\ req[r].date > 0
        /\ req[r].result = Returned(req[r].row.identifier)
        /\ users[req[r].row.identifier].emailVerified = [at |-> req[r].date]
        /\ users[EmailO].emailVerified = NullDate

\* -------------------------------------------------------- C14 (SpecChange)
ChangeDone(r) == At(r, "changePassword", "done")
\* the user exists, has a password hash, and the current password verifies
ChangeAllowed(r) ==
    /\ req[r].user # NoUser
    /\ req[r].user.password # NoHash
    /\ VerifyPassword(req[r].password, req[r].user.password)

\* what C14 says of the stored hash and of the result: the hash is overwritten
\* exactly when the user exists, has a hash and the current password verifies,
\* and the result is a failure in every other case
ChangeWritesIffAllowed ==
    \A r \in Slots :
        ChangeDone(r) =>
            IF ChangeAllowed(r)
            THEN /\ req[r].writes = 1
                 /\ req[r].result.value.success
                 /\ users[req[r].email].password = HashPassword(req[r].newPassword)
            ELSE /\ req[r].writes = 0
                 /\ ~req[r].result.value.success

\* C14 as stated: the hash is overwritten exactly when the change is allowed,
\* the result is a failure otherwise, and every call logs exactly one event,
\* PASSWORD_CHANGED on success and PASSWORD_CHANGE_FAILED on failure.
C14_ChangePasswordLogsOnce ==
    /\ ChangeWritesIffAllowed
    /\ \A r \in Slots :
           ChangeDone(r) =>
               /\ Len(req[r].logged) = 1
               /\ req[r].logged[1].type = IF req[r].result.value.success
                                          THEN "PASSWORD_CHANGED"
                                          ELSE "PASSWORD_CHANGE_FAILED"

\* --------------------------------------------- password reset (SpecReset)
ResetDone(r) == At(r, "resetPassword", "done")
\* resetPasswordWithToken is between its lookup and its return
Resetting(r) == req[r].op = "resetPassword" /\ req[r].pc # "done"
NewestMark(email) == trail[email][Len(trail[email])]

\* C11: when resetPasswordWithToken has returned true, the credential of the
\* email the token was filed under holds the hash of the new password, the
\* token row is gone, the limiter has no entry for the email's login key and
\* the request appended one PASSWORD_RESET_SUCCESS event; the next login for
\* that email passes the rate check; and no step of the reset changes another
\* credential or another rate-limit key.
C11_ResetOverwritesAndUnlocks ==
    /\ [](\A r \in Slots :
            /\ (ResetDone(r) /\ Succeeded(r))
               => /\ req[r].email = StripReset(req[r].row.identifier)
                  /\ users[req[r].email].password = HashPassword(req[r].newPassword)
                  /\ RowsOf(req[r].token) = {}
                  /\ store[AuthKey(req[r].email)] = NoEntry
                  /\ req[r].logged = <<Event("PASSWORD_RESET_SUCCESS", req[r].email,
                                             NoString, NoString, NoMeta)>>
            /\ (JustChecked(r) /\ trail[req[r].email] # <<>>
                               /\ NewestMark(req[r].email).kind = "P")
               => req[r].rl.success)
    /\ [][\A r \in Slots :
            Resetting(r)
            => /\ \A e \in Emails \ {req'[r].email} : users'[e] = users[e]
               /\ \A k \in Keys \ {AuthKey(req'[r].email)} : store'[k] = store[k]]_vars

\* a login passes the rate check after the email was locked out and its
\* password reset, within the window of the lockout, while the other account
\* still has its entry
C11_Witness ==
    \E r \in Slots :
        /\ JustChecked(r)
        /\ req[r].rl.success
        /\ Len(trail[req[r].email]) >= 2
        /\ NewestMark(req[r].email).kind = "P"
        /\ trail[req[r].email][Len(trail[req[r].email]) - 1].kind = "R"
        /\ trail[req[r].email][Len(trail[req[r].email]) - 1].at + LOCKOUT_MS > now
        /\ users[req[r].email].password = HashPassword("Zyxwvut9")
        /\ store[AuthKey(EmailO)] # NoEntry

\* ------------------------------------- reset-password route (SpecResetRace)
\* the route has answered a request that passed the rate check and validation
ResetAnswered(r) ==
    /\ req[r].route = "reset-password"
    /\ req[r].response # NoResult
    /\ req[r].rl.success
    /\ ValidPassword(req[r].newPassword)
\* the token presented had no row, or a row past its expiry, when looked up
AbsentOrExpired(r) == req[r].row = NoRow \/ req[r].row.expires < req[r].begun
ResetFailedEvent ==
    Event("PASSWORD_RESET_FAILED", NoEmail, NoString, ClientIp,
          [reason |-> "INVALID_OR_EXPIRED_TOKEN"])

\* C12: a reset-password request that passed the rate check and validation
\* and presented a token that was absent or expired is answered 400 with code
\* INVALID_TOKEN and appended exactly one PASSWORD_RESET_FAILED event; no step
\* of such a request changes a password hash or an "auth:" limiter entry.
C12_InvalidTokenAnswered ==
    /\ [](\A r \in Slots :
            (ResetAnswered(r) /\ AbsentOrExpired(r))
            => /\ req[r].response.status = 400
               /\ req[r].response.body.code = "INVALID_TOKEN"
               /\ req[r].logged = <<ResetFailedEvent>>)
    /\ [][\A r \in Slots :
            (req'[r] # req[r] /\ req'[r].route = "reset-password"
               /\ req'[r].op = "resetPassword" /\ req'[r].row = req[r].row
               /\ AbsentOrExpired(r))
            => /\ users' = users
               /\ \A k \in AuthKeys : store'[k] = store[k]]_vars

\* -------------------------------------- forgot-password route (SpecForgot)
\* the route has answered a request that passed the rate check and validation
ForgotAnswered(r) ==
    /\ req[r].route = "forgot-password"
    /\ req[r].response # NoResult
    /\ req[r].rl.success
    /\ ValidEmail(req[r].body)

\* C13: of two forgot-password requests that passed the rate check, one for
\* the email of an existing user and one for an unknown email, the status and
\* the body of the answers are equal under every NODE_ENV; and no reset token
\* is ever issued for an email without a user.
C13_SameAnswerForUnknownEmail ==
    /\ \A r \in Slots, q \in Slots :
          (/\ ForgotAnswered(r) /\ ForgotAnswered(q)
           /\ FindUser(req[r].email) # NoUser
           /\ FindUser(req[q].email) = NoUser)
          => /\ req[r].response.status = req[q].response.status
             /\ req[r].response.body = req[q].response.body
    /\ \A row \in issued :
          StartsWithReset(row.identifier) => FindUser(StripReset(row.identifier)) # NoUser

\* ------------------------------------------------- rejected checks (SpecRL)
\* C24: a rejected check returns remainingMs = max(0, windowMs - (now -
\* firstAttempt)), adds one to count, sets lastAttempt to now and keeps
\* firstAttempt; a check made after firstAttempt + windowMs is allowed,
\* however many rejected checks came before it.
C24_RejectionKeepsWindowStart ==
    [][\A k \in RLKeys :
          /\ (CheckStep(k) /\ ~Result(k).success)
             => /\ store[k] # NoEntry
                /\ Result(k).remainingMs
                      = IF opts.windowMs - (now - store[k].firstAttempt) > 0
                        THEN opts.windowMs - (now - store[k].firstAttempt) ELSE 0
                /\ store'[k].count = store[k].count + 1
                /\ store'[k].lastAttempt = now
                /\ store'[k].firstAttempt = store[k].firstAttempt
          /\ (CheckStep(k) /\ store[k] # NoEntry
                /\ now > store[k].firstAttempt + opts.windowMs)
             => Result(k).success]_vars

\* a key was rejected twice, the second time later and with a shorter wait
\* counted from the same firstAttempt
C24_Witness ==
    \E k \in RLKeys : \E i \in 1..(Len(calls[k]) - 1) :
        /\ ~calls[k][i].result.success
        /\ ~calls[k][i + 1].result.success
        /\ i + 1 = Len(calls[k])
        /\ calls[k][i + 1].at > calls[k][i].at
        /\ calls[k][i + 1].result.remainingMs < calls[k][i].result.remainingMs
        /\ store[k].firstAttempt < calls[k][i].at
        /\ store[k].lastAttempt = calls[k][i + 1].at

\* --------------------------------------------------------- sweep (SpecSweep)
\* the sweep deletes this entry at time t
SweptAt(entry, t) == entry # NoEntry /\ t - entry.lastAttempt > CLEANUP_MAX_AGE

\* C28: a sweep deletes exactly the entries with now - lastAttempt > 1 hour;
\* and an entry the sweep deletes is one for which every check from now on
\* returns the result, and writes the entry, that it returns and writes for
\* an absent key: no later check tells whether the sweep ran.
C28_SweepInvisible ==
    /\ [](\A k \in RLKeys : \A t \in SweepClock :
             (SweptAt(store[k], now) /\ t >= now)
             => CheckOutcome(store[k], t, opts) = CheckOutcome(NoEntry, t, opts))
    /\ [][RLCleanup =>
             \A k \in DOMAIN store :
                 store'[k] = IF SweptAt(store[k], now) THEN NoEntry ELSE store[k]]_vars

\* under a one hour window: a key was swept more than an hour after its last
\* attempt, then checked and allowed as a first attempt, while the entry of
\* the other key stayed
C28_Witness ==
    \E k \in RLKeys, j \in RLKeys :
        /\ opts.windowMs = CLEANUP_MAX_AGE
        /\ k \in swept
        /\ Len(calls[k]) = 1
        /\ calls[k][1].result.success
        /\ calls[k][1].at > CLEANUP_MAX_AGE
        /\ j # k
        /\ store[j] # NoEntry
        /\ store[j].firstAttempt < calls[k][1].at

\* ------------------------------------------ concurrent logins (SpecLoginRace)
\* the requests for the email that passed the rate check at or after time t
\* and have not returned
PassedInFlight(email, t) ==
    {r \in Slots : /\ req[r].op = "login" /\ req[r].email = email
                   /\ \/ req[r].pc = "checked" /\ req[r].rl.success
                      \/ req[r].pc = "found"
                   /\ req[r].date >= t}
\* the failed logins noted for the email at or after time t
FailedSince(email, t) ==
    {i \in DOMAIN trail[email] : trail[email][i].kind = "F" /\ trail[email][i].at >= t}

\* C25: while no login succeeds, the requests that passed the rate check in
\* the window of the email's entry, returned or still in flight, are at most
\* MAX_LOGIN_ATTEMPTS; and every rate check, however the requests interleave,
\* adds exactly one to the count of an entry whose window is running and is
\* allowed exactly when the count it wrote is at most MAX_LOGIN_ATTEMPTS.
C25_ConcurrentLoginsCounted ==
    /\ [](\A e \in Emails :
            store[AuthKey(e)] # NoEntry
            => Cardinality(PassedInFlight(e, store[AuthKey(e)].firstAttempt))
                 + Cardinality(FailedSince(e, store[AuthKey(e)].firstAttempt))
               <= MAX_LOGIN_ATTEMPTS)
    /\ [][\A r \in Slots :
            (At(r, "login", "check") /\ req'[r].pc = "checked")
            => LET k == AuthKey(req[r].email)
               IN  /\ store'[k] # NoEntry
                   /\ store'[k].count
                        = IF store[k] = NoEntry
                               \/ now - store[k].firstAttempt > LOCKOUT_MS
                          THEN 1 ELSE store[k].count + 1
                   /\ req'[r].rl.success <=> store'[k].count <= MAX_LOGIN_ATTEMPTS]_vars

\* four logins have failed, a fifth has passed the check and is at its
\* credential lookup, and a sixth, checked meanwhile, is rejected
C25_Witness ==
    \E r \in Slots, q \in Slots :
        /\ At(r, "login", "found") /\ req[r].rl.remaining = 0
        /\ At(q, "login", "checked") /\ ~req[q].rl.success
        /\ store[AuthKey(EmailA)].count = MAX_LOGIN_ATTEMPTS + 1
        /\ Cardinality(FailedSince(EmailA, store[AuthKey(EmailA)].firstAttempt)) = 4

\* ------------------------------------ concurrent resets (SpecResetRace)
\* C26: of two resetPasswordWithToken requests that present the same reset
\* token, found it valid and have returned, at most one has overwritten the
\* credential's password hash.
C26_TokenHonouredOnce ==
    \A r \in Slots, q \in Slots :
        (/\ r # q
         /\ ResetDone(r) /\ ResetDone(q)
         /\ req[r].token = req[q].token
         /\ req[r].row # NoRow /\ req[q].row = req[r].row)
        => req[r].writes + req[q].writes <= 1

\* ------------------------------------------ reset requests logged (SpecForgot)
\* the PASSWORD_RESET_REQUESTED events for its email that request r appended
ResetRequestsLogged(r) ==
    {i \in DOMAIN req[r].logged : /\ req[r].logged[i].type = "PASSWORD_RESET_REQUESTED"
                                  /\ req[r].logged[i].email = req[r].email}

\* C27: a forgot-password request for an existing user that passed the rate
\* check has appended exactly one PASSWORD_RESET_REQUESTED event for the
\* email.
C27_OneEventPerResetRequest ==
    \A r \in Slots :
        (ForgotAnswered(r) /\ FindUser(req[r].email) # NoUser)
        => Cardinality(ResetRequestsLogged(r)) = 1

\* -------------------------------------------------- event log (SpecLog)
\* C21: cleanupOldLogs(maxAgeMs) leaves no entry older than now - maxAgeMs,
\* keeps the entries newer than that in their order, and returns the number
\* of entries it removed.
C21_CleanupRemovesAllOld ==
    [][\A r \in Slots :
          (req'[r].op = "cleanupOldLogs" /\ req'[r] # req[r])
          => LET cutoff == now - req'[r].maxAgeMs
             IN  /\ \A i \in DOMAIN logStore' : ~(logStore'[i].timestamp < cutoff)
                 /\ SelectSeq(logStore', LAMBDA x : x.timestamp > cutoff)
                      = SelectSeq(logStore, LAMBDA x : x.timestamp > cutoff)
                 /\ req'[r].result.value.removed = Len(logStore) - Len(logStore')]_vars

\* the positions of the entries of the email logged within the hour before t
RecentOf(email, t) ==
    {i \in DOMAIN logStore : /\ logStore[i].email = email
                             /\ logStore[i].timestamp > t - SUSPICIOUS_WINDOW_MS}
FailedOf(email, t) == {i \in RecentOf(email, t) : logStore[i].type = "LOGIN_FAILED"}
ResetsOf(email, t) ==
    {i \in RecentOf(email, t) : logStore[i].type = "PASSWORD_RESET_REQUESTED"}
IpsOf(email, t) == {logStore[i].ip : i \in FailedOf(email, t)} \ {NoString}
Detected(r) == At(r, "detectSuspiciousActivity", "done")

\* C22: detectSuspiciousActivity(email) returns suspicious = true exactly
\* when, among the events of the email in the trailing hour, there are at
\* least 10 LOGIN_FAILED events from at least 3 distinct IPs, or at least 5
\* PASSWORD_RESET_REQUESTED events; the reason is that of the failed logins
\* when both hold; and the call leaves the buffer as it was.
C22_SuspiciousIffThresholds ==
    /\ [](\A r \in Slots :
            Detected(r)
            => LET e == req[r].email
                   t == req[r].date
                   manyFailed == /\ Cardinality(FailedOf(e, t)) >= 10
                                 /\ Cardinality(IpsOf(e, t)) >= 3
                   manyResets == Cardinality(ResetsOf(e, t)) >= 5
                   answer == req[r].result.value
               IN  /\ answer.suspicious <=> (manyFailed \/ manyResets)
                   /\ manyFailed
                      => answer.reason = "Multiple failed logins from different IPs"
                   /\ (~manyFailed /\ manyResets)
                      => answer.reason = "Excessive password reset requests"
                   /\ ~answer.suspicious => answer.reason = NoString)
    /\ [][\A r \in Slots :
            (req'[r].op = "detectSuspiciousActivity" /\ req'[r] # req[r])
            => logStore' = logStore]_vars

\* 9 failed logins of the email from 3 addresses within the hour, a tenth
\* more than an hour old, 4 reset requests: not suspicious
C22_Witness ==
    \E r \in Slots :
        /\ Detected(r)
        /\ Cardinality(FailedOf(req[r].email, req[r].date)) = 9
        /\ Cardinality(IpsOf(req[r].email, req[r].date)) = 3
        /\ Cardinality(ResetsOf(req[r].email, req[r].date)) = 4
        /\ \E i \in DOMAIN logStore :
              /\ logStore[i].email = req[r].email
              /\ logStore[i].type = "LOGIN_FAILED"
              /\ i \notin RecentOf(req[r].email, req[r].date)
        /\ ~req[r].result.value.suspicious

\* the entries a query of request r matches, oldest first
Matching(r) ==
    IF req[r].op = "getAuthEventsForUser"
    THEN SelectSeq(logStore, LAMBDA x : x.userId = req[r].userId)
    ELSE SelectSeq(logStore, LAMBDA x : x.type = req[r].filter)

\* C23: getAuthEventsForUser and getAuthEventsByType return at most limit
\* entries, for every limit >= 0: the most recently logged matching entries,
\* newest first; and they leave the buffer as it was.
C23_QueriesBoundedNewestFirst ==
    /\ [](\A r \in Slots :
            req[r].op \in {"getAuthEventsForUser", "getAuthEventsByType"}
            => LET found == req[r].result.value.entries
                   all   == Matching(r)
               IN  /\ Len(found) <= req[r].limit
                   /\ Len(found) = IF Len(all) < req[r].limit THEN Len(all)
                                   ELSE req[r].limit
                   /\ \A j \in 1..Len(found) : found[j] = all[Len(all) + 1 - j])
    /\ [][\A r \in Slots :
            (req'[r].op \in {"getAuthEventsForUser", "getAuthEventsByType"}
               /\ req'[r] # req[r])
            => logStore' = logStore]_vars

\* ------------------------------------------ rate limited handler (SpecApi)
\* C29: a handler wrapped by withRateLimit(handler, limit, windowMs) is reached
\* by the first `limit` requests of an address within the window, and the next
\* request is answered 429 without the handler being called, with an
\* X-RateLimit-Limit header equal to the limit enforced.
WithRateLimitDone(r) == At(r, "withRateLimit", "done")
C29_WrapperEnforcesItsLimit ==
    \A r \in Slots :
        WithRateLimitDone(r) =>
            /\ req[r].nth <= req[r].limit =>
                    req[r].handled /\ req[r].response.response.status # 429
            /\ req[r].nth = req[r].limit + 1 =>
                    ~req[r].handled /\ req[r].response.response.status = 429
            /\ req[r].response.response.status # 429 =>
                    req[r].nth <= req[r].response.headers.limit

\* ------------------------------------------------ middleware (SpecMiddleware)
\* the middleware has just answered a request of address ip to an /api path
Answered(ip) ==
    /\ req'[1].op = "middleware" /\ req'[1].body = ip /\ req'[1].date = now
    /\ req'[1].path[1] = "/api"
\* C30: per address and 60-second window begun by its first counted request,
\* the middleware passes on at most 20 requests to paths under /api/auth and at
\* most 100 requests to /api paths; a rejected request is answered 429 and
\* leaves the counter as it was; the first request more than 60 seconds after
\* the window start is passed on and starts a new window with count 1.
C30_MiddlewareWindowLimits ==
    /\ [](\A ip \in Ips : /\ passed[ip].auth <= 20
                          /\ passed[ip].total <= 100)
    /\ [][\A ip \in Ips :
            LET k == MiddlewareKey(ip)
            IN  /\ (rateLimitStore'[k] # rateLimitStore[k] /\ rateLimitStore'[k] # NoEntry)
                        => Answered(ip) /\ req'[1].response.status # 429
                /\ (req'[1] # req[1] /\ Answered(ip) /\ passed'[ip] = passed[ip])
                        => req'[1].response.status = 429
                /\ (req'[1] # req[1] /\ Answered(ip) /\ rateLimitStore[k] # NoEntry
                        /\ now - rateLimitStore[k].timestamp > 60000)
                        => /\ req'[1].response.status # 429
                           /\ rateLimitStore'[k] = [count |-> 1, timestamp |-> now]]_vars
\* in a window begun after an earlier one was over, 20 requests to /api/auth
\* paths were passed on and the next one has been rejected
C30_Witness ==
    /\ req[1].op = "middleware" /\ req[1].response.status = 429
    /\ req[1].path = <<"/api", "/auth", "/login">>
    /\ passed[ClientIp].start > MIDDLEWARE_WINDOW_MS
    /\ passed[ClientIp].auth = 20
    /\ rateLimitStore[MiddlewareKey(ClientIp)] = [count |-> 20, timestamp |-> passed[ClientIp].start]

====
